---- MODULE Spec2Model ----
(***************************************************************************)
(* Model of the Whispering streaming pipeline: the merging queues          *)
(* (whispering/core/utils.py MergingQueue, cmque.py Queue over PairDeque / *)
(* DataDeque), the sliding-window transcription update, the STTEngine      *)
(* supervisor with its three worker threads, proc with its two worker      *)
(* threads, and the translation stage in HTTP mode.                        *)
(*                                                                         *)
(* Strings and sample buffers are sequences of small naturals (tokens).    *)
(* Python objects that are shared by reference live in a heap (a sequence  *)
(* of object records); a queue of a MergingQueue holds references.         *)
(***************************************************************************)
EXTENDS Integers, Sequences, FiniteSets, TLC

VARIABLES
    kind,       \* queue harness: which queue implementation is exercised
    hq,         \* queue harness: the deque of the queue
    hheap,      \* queue harness: heap of the objects handed to MergingQueue
    putLog,     \* queue harness: every item put so far, in order
    gotLog,     \* queue harness: every item returned by get so far, in order
    tsImpl,     \* transcription: "whisper" (WhisperTranscriptionService) or "proc" (ts_proc)
    paraOn,     \* transcription: proc runs with a ParagraphDetector
    patience,   \* transcription: patience, in ticks
    wlen,       \* transcription: len(window), in samples (whisper) or bytes (proc)
    cumulative_offset,  \* ts_proc: cumulative_offset, in ticks
    deleted,    \* transcription: samples deleted from the front of the window so far
    nupd,       \* transcription: number of updates so far
    det,        \* ParagraphDetector state
    tsPc,       \* transcription: "get" (waiting for a frame) or "transcribe" (oracle called)
    tsObs,      \* transcription: the locals of the latest update (<<>> once dead)
    memory,     \* transcription: memory, the maxlen of the prompt deque
    prompts,    \* transcription: the texts the deque prompts holds
    chronological,  \* transcription: every oracle response so far listed chronological,
                \* non-overlapping segments
    supPc,      \* engine: position of the task started by STTEngine.start
    is_running, \* engine: STTEngine.is_running
    stopCalled, \* engine: the caller has called stop()
    recPc,      \* engine: position of _record_task
    trPc,       \* engine: position of _transc_task
    trSrc,      \* engine: the local src of _transc_task (a reference)
    tlPc,       \* engine: position of _transl_task
    tlSrc,      \* engine: the local src of _transl_task (a reference)
    eheap,      \* engine: the Data and Pair objects created so far
    frameQ,     \* engine: record_result_queue.deque
    ts2tlQ,     \* engine: transc2transl_queue.deque
    tsresQ,     \* engine: transc_result_queue.deque
    tlresQ,     \* engine: transl_result_queue.deque
    calls,      \* engine: how often each callback has been invoked
    qstat,      \* engine: per queue, the Nones put and whether anything was put after a None
    nreads,     \* engine: frames read from the recording service
    tsReturned, \* engine: confirmed text returned by transc_service.update so far
    uiTsTaken,  \* engine: confirmed text of the Pairs the UI took from the TS result queue
    tlTaken,    \* engine: confirmed text of the Pairs _transl_task took from the TS->TL queue
    uiTsNone,   \* engine: the UI has taken the None of the TS result queue
    tlNone,     \* engine: _transl_task has taken the None of the TS->TL queue
    ready,      \* proc: ready[0], "False", "True" or "None"
    error,      \* proc: what raised in the body of proc: "none", "load" or "read"
    procPc,     \* proc: position of the body of proc
    ts_thread,  \* proc: position of ts_proc
    tl_thread,  \* proc: position of tl_proc
    frame_queue,    \* proc: frame_queue.deque
    ts2tl_queue,    \* proc: ts2tl_queue.deque
    tsres_queue,    \* proc: tsres_queue.deque
    tlres_queue,    \* proc: tlres_queue.deque
    prres_queue,    \* proc: prres_queue.deque (unused when hasPr is FALSE)
    hasPr,      \* proc: prres_queue is not None
    aiMode,     \* proc: "http" (no ai_processor) or ai_processor.mode
    auto_stop_enabled,  \* proc: auto_stop_enabled
    stopBy,     \* proc: who set ready[0] to False last: "none", "ui" or "auto"
    pnreads,    \* proc: frames read from the stream
    pstat,      \* proc: per queue, the Nones put and whether anything was put after a None
    tlImpl,     \* translation: "proc" (tl_proc, HTTP branch) or "auto" (AutoTranslationProcessor)
    hasTarget,  \* translation: a target language is set
    htAutoStop, \* translation: tl_proc runs with auto_stop_enabled
    rsrv_src,   \* translation: rsrv_src of tl_proc / self.src of AutoTranslationProcessor
    hReceived,  \* translation: confirmed source text received so far
    hEmitted,   \* translation: source spans whose targets were emitted as confirmed
    hWellFormed,    \* translation: every answer of translate so far spanned the text sent
    hSentences, \* translation: every answer so far was the split into sentences
    hnTaken,    \* translation: Pairs taken from the TS->TL queue
    hnPut,      \* translation: Pairs put on the TL result queue
    hPc,        \* translation: "get", "done" or "dead"
    hByNone,    \* translation: the stage ended on None
    hTgtOut,    \* translation: the confirmed targets emitted so far, concatenated
    hObs,       \* translation: the outcome of the latest update
    dScen,      \* detector: the scenario, "free", "S3" or "S4"
    dParams,    \* detector: the parameters the detector was constructed with
    dDet,       \* detector: pause_history, current_para_chars, current_para_words, last_absolute_end
    dSegs,      \* detector: the segments of the stream, with absolute times
    dNext,      \* detector: index in dSegs of the first segment not yet passed
    dCalls,     \* detector: calls of process_segments so far
    dBatch,     \* detector: the segments argument of the latest call
    dOffset,    \* detector: the time_offset argument of the latest call
    dRet,       \* detector: what the latest call returned
    dOut,       \* detector: everything returned so far, concatenated
    aMode,      \* LLM stage: "http" (no ai_processor) or ai_processor.mode
    aHasPr,     \* LLM stage: prres_queue is not None
    ai_trigger_mode, \* LLM stage: "time", "words" or "manual"
    aAutoStop,  \* LLM stage: auto_stop_enabled
    manual_trigger, \* LLM stage: manual_trigger[0]
    accumulated_done, \* LLM stage: confirmed text not yet dispatched
    last_curr_src, \* LLM stage: the draft of the latest Pair
    aRsrv,      \* LLM stage: rsrv_src (HTTP branch)
    now,        \* LLM stage: time.time(), in ticks since tl_proc started
    last_process_time, \* LLM stage: time of the latest dispatch
    last_activity_time, \* LLM stage: last_activity_time of tl_proc
    aLastCnfm,  \* LLM stage: time at which confirmed text last arrived (start if never)
    aPc,        \* LLM stage: "get" (in the loop), "exit" (loop left) or "done"
    aByNone,    \* LLM stage: the loop was left on None
    aNUpd,      \* LLM stage: Pairs taken from the TS->TL queue
    aPrQueued,  \* LLM stage: prres_queue holds an element
    aOutTl,     \* LLM stage: for each put on tlres_queue in order, whether it was None
    aOutPr,     \* LLM stage: for each put on prres_queue in order, whether it was None
    aObs        \* LLM stage: the latest loop pass or exit processing

qvars == <<kind, hq, hheap, putLog, gotLog>>

tvars == <<tsImpl, paraOn, patience, wlen, cumulative_offset, deleted, nupd, det, tsPc, tsObs, memory, prompts,
           chronological>>

evars == <<supPc, is_running, stopCalled, recPc, trPc, trSrc, tlPc, tlSrc, eheap,
           frameQ, ts2tlQ, tsresQ, tlresQ, calls, qstat, nreads,
           tsReturned, uiTsTaken, tlTaken, uiTsNone, tlNone>>

pvars == <<ready, error, procPc, ts_thread, tl_thread,
           frame_queue, ts2tl_queue, tsres_queue, tlres_queue, prres_queue,
           hasPr, aiMode, auto_stop_enabled, stopBy, pnreads, pstat>>

hvars == <<tlImpl, hasTarget, htAutoStop, rsrv_src, hReceived, hEmitted, hWellFormed,
           hSentences, hnTaken, hnPut, hPc, hByNone, hTgtOut, hObs>>

dvars == <<dScen, dParams, dDet, dSegs, dNext, dCalls, dBatch, dOffset, dRet, dOut>>

avars == <<aMode, aHasPr, ai_trigger_mode, aAutoStop, manual_trigger, accumulated_done, last_curr_src, aRsrv, now, last_process_time, last_activity_time, aLastCnfm, aPc, aByNone, aNUpd, aPrQueued, aOutTl, aOutPr, aObs>>

\* the variables of the parts other than the one an action belongs to
othersQ == <<tvars, evars, pvars, hvars, dvars, avars>>

othersT == <<qvars, evars, pvars, hvars, dvars, avars>>

othersE == <<qvars, tvars, pvars, hvars, dvars, avars>>

othersP == <<qvars, tvars, evars, hvars, dvars, avars>>

othersH == <<qvars, tvars, evars, pvars, dvars, avars>>

othersD == <<qvars, tvars, evars, pvars, hvars, avars>>

othersA == <<qvars, tvars, evars, pvars, hvars, dvars>>

vars == <<kind, hq, hheap, putLog, gotLog,
          tsImpl, paraOn, patience, wlen, cumulative_offset, deleted, nupd, det, tsPc, tsObs,
          memory, prompts, chronological,
          supPc, is_running, stopCalled, recPc, trPc, trSrc, tlPc, tlSrc, eheap,
          frameQ, ts2tlQ, tsresQ, tlresQ, calls, qstat, nreads,
          tsReturned, uiTsTaken, tlTaken, uiTsNone, tlNone,
          ready, error, procPc, ts_thread, tl_thread,
          frame_queue, ts2tl_queue, tsres_queue, tlres_queue, prres_queue,
          hasPr, aiMode, auto_stop_enabled, stopBy, pnreads, pstat,
          tlImpl, hasTarget, htAutoStop, rsrv_src, hReceived, hEmitted, hWellFormed,
          hSentences, hnTaken, hnPut, hPc, hByNone, hTgtOut, hObs,
          dScen, dParams, dDet, dSegs, dNext, dCalls, dBatch, dOffset, dRet, dOut,
          aMode, aHasPr, ai_trigger_mode, aAutoStop, manual_trigger, accumulated_done, last_curr_src, aRsrv, now, last_process_time, last_activity_time, aLastCnfm, aPc, aByNone, aNUpd, aPrQueued, aOutTl, aOutPr, aObs>>

----------------------------------------------------------------------------
(* Bounds *)

MaxPuts ==
    4

\* time is counted in ticks; one sample lasts TicksPerSample ticks
TicksPerSample ==
    2

\* samples in one frame taken from the frame queue (frames are merged)
MaxFrame ==
    1

MaxUpdates ==
    3

\* segments the oracle returns for one window
MaxSegs ==
    2

MaxPatience ==
    2

\* the largest memory (the maxlen of the prompt deque)
MaxMemory ==
    2

\* frames the recording service delivers in one session
MaxReads ==
    2

\* frames proc reads from the audio stream in one session
MaxPReads ==
    2

\* Pairs the translation stage takes in one session
MaxHUpdates ==
    3

\* a provider answer splits the text sent into at most MaxCuts + 1 spans
\* (the split into sentences is always among the answers)
MaxCuts ==
    2

\* ParagraphDetector parameters, scaled to the model: durations in ticks,
\* lengths in tokens
ParaMinPause ==
    1

ParaMaxChars ==
    3

ParaMaxWords ==
    2

ParaWindowSize ==
    2

ParaWarmupCount ==
    2

ParaWarmupThreshold ==
    2

\* tl_proc in LLM mode, scaled to the model: lengths in tokens, times in
\* ticks
MIN_CHARS_TO_PROCESS ==
    6

MAX_CHARS_TO_ACCUMULATE ==
    10

ai_process_interval ==
    2

ai_process_words ==
    2

silence_timeout ==
    2

AUTO_STOP_DURATION ==
    3

\* Pairs the LLM stage takes in one behaviour
MaxAUpdates ==
    2

\* ticks of the clock in one behaviour
MaxTime ==
    3

\* the free scenario of the paragraph detector: segments in the stream
MaxDSegs ==
    3

\* calls of process_segments in one behaviour
MaxDCalls ==
    4

----------------------------------------------------------------------------
(* Values *)

\* A deque cell: Python None, or a value / reference.
None ==
    [none |-> TRUE, val |-> <<>>]

Some(v) ==
    [none |-> FALSE, val |-> v]

Range(s) ==
    {s[i] : i \in 1..Len(s)}

Last(s) ==
    s[Len(s)]

IsPrefix(s, t) ==
    /\ Len(s) <= Len(t)
    /\ SubSeq(t, 1, Len(s)) = s

\* dataclass Pair(cnfm, drft)
Pair(c, d) ==
    [cnfm |-> c, drft |-> d]

\* dataclass Data(data)
Data(d) ==
    [data |-> d]

\* Pair.merge with the two assignments exchanged (a plausible slip).
PairMergeSwapped(self, other) ==
    [cnfm |-> other.cnfm, drft |-> self.drft \o other.drft]

\* Pair.merge: self.cnfm += other.cnfm; self.drft = other.drft
PairMerge(self, other) ==
    [cnfm |-> self.cnfm \o other.cnfm, drft |-> other.drft]

\* a Data.merge that keeps only the newer frame
DataMergeKeepsNewer(self, other) ==
    [data |-> other.data]

\* Data.merge: self.data = np.concatenate((self.data, other.data))
DataMerge(self, other) ==
    [data |-> self.data \o other.data]

\* last.merge(item): dispatch on the class of the tail object
Merge(self, other) ==
    IF "data" \in DOMAIN self THEN DataMerge(self, other) ELSE PairMerge(self, other)

----------------------------------------------------------------------------
(* whispering/core/utils.py: MergingQueue.  The deque holds None or       *)
(* references into a heap; put merges INTO the tail object in place.       *)

\* the elif condition of MergingQueue.put: the tail exists and is not None
MQMergesTail(dq, item) ==
    /\ ~item.none
    /\ Len(dq) > 0
    /\ ~Last(dq).none

\* MergingQueue.put without its "item is None" branch: a sentinel put behind
\* a real tail is swallowed like any other item.
MQPutDequeSentinelMerged(dq, item) ==
    IF Len(dq) > 0 /\ ~Last(dq).none THEN dq ELSE Append(dq, item)

\* the deque after MergingQueue.put(item)
MQPutDeque(dq, item) ==
    IF item.none THEN Append(dq, None)
    ELSE IF MQMergesTail(dq, item) THEN dq
    ELSE Append(dq, item)

\* the heap after MergingQueue.put(item): the tail object is mutated in place
MQPutHeap(dq, hp, item) ==
    IF MQMergesTail(dq, item)
    THEN [hp EXCEPT ![Last(dq).val] = Merge(hp[Last(dq).val], hp[item.val])]
    ELSE hp

\* MergingQueue.__bool__
MQNonEmpty(dq) ==
    Len(dq) > 0

----------------------------------------------------------------------------
(* cmque.py: Queue over DataDeque / PairDeque.  append copies the item     *)
(* (bytearray(item), list(item)), so the deque holds values.               *)

\* DataDeque.append
DataDequeAppend(dq, item) ==
    IF item.none THEN Append(dq, None)
    ELSE IF Len(dq) > 0 /\ ~Last(dq).none
         THEN [dq EXCEPT ![Len(dq)] = Some(@.val \o item.val)]
    ELSE Append(dq, item)

\* PairDeque.append: self[-1][0] = item[0]; self[-1][1] += item[1]
PairDequeAppend(dq, item) ==
    IF item.none THEN Append(dq, None)
    ELSE IF Len(dq) > 0 /\ ~Last(dq).none
         THEN [dq EXCEPT ![Len(dq)] = Some(<<item.val[1], @.val[2] \o item.val[2]>>)]
    ELSE Append(dq, item)

----------------------------------------------------------------------------
(* Queue harness: one producer and one consumer on one queue.  kind picks  *)
(* the implementation; the k-th put carries the token k so that dropped,   *)
(* duplicated or reordered content is visible.                             *)

Kinds ==
    {"MQPair", "MQData", "PairDeque", "DataDeque"}

\* the strings the k-th put may carry
TokStr(k) ==
    {<<>>, <<k>>}

\* the engine before STTEngine.start: nothing constructed, no thread running
EIdle ==
    /\ supPc = "construct"
    /\ is_running = FALSE
    /\ stopCalled = FALSE
    /\ recPc = "off"
    /\ trPc = "off"
    /\ trSrc = 0
    /\ tlPc = "off"
    /\ tlSrc = 0
    /\ eheap = <<>>
    /\ frameQ = <<>>
    /\ ts2tlQ = <<>>
    /\ tsresQ = <<>>
    /\ tlresQ = <<>>
    /\ calls = [c \in {"on_failure", "on_success", "on_stopped", "on_record_error",
                        "on_transc_error", "on_transl_error"} |-> 0]
    /\ qstat = [q \in {"frame", "ts2tl", "tsres", "tlres"} |-> [nones |-> 0, after |-> FALSE]]
    /\ nreads = 0
    /\ tsReturned = <<>>
    /\ uiTsTaken = <<>>
    /\ tlTaken = <<>>
    /\ uiTsNone = FALSE
    /\ tlNone = FALSE

\* the translation stage before its first update
HIdle ==
    /\ tlImpl = "proc"
    /\ hasTarget = TRUE
    /\ htAutoStop = FALSE
    /\ rsrv_src = <<>>
    /\ hReceived = <<>>
    /\ hEmitted = <<>>
    /\ hWellFormed = TRUE
    /\ hSentences = TRUE
    /\ hnTaken = 0
    /\ hnPut = 0
    /\ hPc = "get"
    /\ hByNone = FALSE
    /\ hTgtOut = <<>>
    /\ hObs = <<>>

\* proc before it is started: the UI has set ready[0] = False
PIdle ==
    /\ ready = "False"
    /\ error = "none"
    /\ procPc = "load"
    /\ ts_thread = "off"
    /\ tl_thread = "off"
    /\ frame_queue = <<>>
    /\ ts2tl_queue = <<>>
    /\ tsres_queue = <<>>
    /\ tlres_queue = <<>>
    /\ prres_queue = <<>>
    /\ hasPr = FALSE
    /\ aiMode = "http"
    /\ auto_stop_enabled = FALSE
    /\ stopBy = "none"
    /\ pnreads = 0
    /\ pstat = [q \in {"frame", "ts2tl", "tsres", "tlres", "prres"} |->
                  [nones |-> 0, after |-> FALSE]]

\* the transcription variables while another part runs
TIdle ==
    /\ tsImpl = "whisper"
    /\ paraOn = FALSE
    /\ patience = 0
    /\ wlen = 0
    /\ cumulative_offset = 0
    /\ deleted = 0
    /\ nupd = 0
    /\ det = [pause_history |-> <<>>, current_para_chars |-> 0,
               current_para_words |-> 0, last_absolute_end |-> None]
    /\ tsPc = "get"
    /\ tsObs = <<>>
    /\ memory = 1
    /\ prompts = <<>>
    /\ chronological = TRUE

\* the detector harness variables while another part runs
DIdle ==
    /\ dScen = "free"
    /\ dParams = <<>>
    /\ dDet = <<>>
    /\ dSegs = <<>>
    /\ dNext = 1
    /\ dCalls = 0
    /\ dBatch = <<>>
    /\ dOffset = 0
    /\ dRet = <<>>
    /\ dOut = <<>>

\* the LLM stage variables while another part runs
AIdle ==
    /\ aMode = "http"
    /\ aHasPr = FALSE
    /\ ai_trigger_mode = "time"
    /\ aAutoStop = FALSE
    /\ manual_trigger = FALSE
    /\ accumulated_done = <<>>
    /\ last_curr_src = <<>>
    /\ aRsrv = <<>>
    /\ now = 0
    /\ last_process_time = 0
    /\ last_activity_time = 0
    /\ aLastCnfm = None
    /\ aPc = "get"
    /\ aByNone = FALSE
    /\ aNUpd = 0
    /\ aPrQueued = FALSE
    /\ aOutTl = <<>>
    /\ aOutPr = <<>>
    /\ aObs = <<>>

\* the queue harness variables while another part runs
QIdle ==
    /\ kind = "MQPair"
    /\ hq = <<>>
    /\ hheap = <<>>
    /\ putLog = <<>>
    /\ gotLog = <<>>

InitQ ==
    /\ kind \in Kinds
    /\ hq = <<>>
    /\ hheap = <<>>
    /\ putLog = <<>>
    /\ gotLog = <<>>
    /\ TIdle
    /\ EIdle
    /\ PIdle
    /\ HIdle
    /\ DIdle
    /\ AIdle

\* MergingQueue.put(obj) for a freshly created object, or put(None)
MQPut ==
    /\ kind \in {"MQPair", "MQData"}
    /\ Len(putLog) < MaxPuts
    /\ LET k == Len(putLog) + 1 IN
       \/ /\ hq' = MQPutDeque(hq, None)
          /\ hheap' = MQPutHeap(hq, hheap, None)
          /\ putLog' = Append(putLog, None)
       \/ \E c \in TokStr(k), d \in TokStr(k) :
            LET obj == IF kind = "MQPair" THEN Pair(c, d) ELSE Data(c)
                ref == Len(hheap) + 1
            IN  /\ hq' = MQPutDeque(hq, Some(ref))
                /\ hheap' = MQPutHeap(hq, Append(hheap, obj), Some(ref))
                /\ putLog' = Append(putLog, Some(obj))
    /\ UNCHANGED <<kind, gotLog>>
    /\ UNCHANGED othersQ

\* MergingQueue.get: blocks while the deque is empty, then popleft
MQGet ==
    /\ kind \in {"MQPair", "MQData"}
    /\ MQNonEmpty(hq)
    /\ hq' = Tail(hq)
    /\ gotLog' = Append(gotLog, IF Head(hq).none THEN None ELSE Some(hheap[Head(hq).val]))
    /\ UNCHANGED <<kind, hheap, putLog>>
    /\ UNCHANGED othersQ

\* cmque Queue.put: self.deque.append(item)
CQPut ==
    /\ kind \in {"PairDeque", "DataDeque"}
    /\ Len(putLog) < MaxPuts
    /\ LET k == Len(putLog) + 1 IN
       \E item \in {None} \cup (IF kind = "PairDeque"
                                 THEN {Some(<<c, d>>) : c \in TokStr(k), d \in TokStr(k)}
                                 ELSE {Some(c) : c \in TokStr(k)}) :
          /\ hq' = IF kind = "PairDeque" THEN PairDequeAppend(hq, item)
                                         ELSE DataDequeAppend(hq, item)
          /\ putLog' = Append(putLog, item)
    /\ UNCHANGED <<kind, hheap, gotLog>>
    /\ UNCHANGED othersQ

\* cmque Queue.get: blocks while the deque is empty, then popleft
CQGet ==
    /\ kind \in {"PairDeque", "DataDeque"}
    /\ Len(hq) > 0
    /\ hq' = Tail(hq)
    /\ gotLog' = Append(gotLog, Head(hq))
    /\ UNCHANGED <<kind, hheap, putLog>>
    /\ UNCHANGED othersQ

NextQ ==
    \/ MQPut
    \/ MQGet
    \/ CQPut
    \/ CQGet

SpecQ ==
    InitQ /\ [][NextQ]_vars

----------------------------------------------------------------------------
(* Properties of the queues *)

\* what the consumer has seen followed by what is still queued
HOut ==
    gotLog \o [i \in 1..Len(hq) |->
                 IF kind \in {"MQPair", "MQData"} /\ ~hq[i].none
                 THEN Some(hheap[hq[i].val]) ELSE hq[i]]

NoNonePut ==
    \A i \in 1..Len(putLog) : ~putLog[i].none

RECURSIVE ConcatCnfm(_)
ConcatCnfm(s) ==
    IF s = <<>> THEN <<>> ELSE Head(s).val.cnfm \o ConcatCnfm(Tail(s))

\* C1: MergingQueue[Pair], one producer and one consumer, only non-None puts:
\* the items returned by get followed by the items still queued carry the
\* confirmed text of all puts, concatenated in put order (nothing dropped,
\* duplicated or reordered), and their last draft is the draft of the latest put.
C1_MergePreservesContent ==
    (kind = "MQPair" /\ NoNonePut) =>
        /\ (HOut = <<>>) <=> (putLog = <<>>)
        /\ ConcatCnfm(HOut) = ConcatCnfm(putLog)
        /\ putLog # <<>> => Last(HOut).val.drft = Last(putLog).val.drft

\* C1 witness: three Pairs were put, two of them were merged into one item
\* with two confirmed tokens, and get has returned that merged item.
C1_Witness ==
    /\ kind = "MQPair"
    /\ NoNonePut
    /\ Len(putLog) >= 3
    /\ Len(gotLog) >= 1
    /\ \E i \in 1..Len(gotLog) : Len(gotLog[i].val.cnfm) >= 2

\* C2 (as claimed): cmque Queue(PairDeque()), two pairs (done_a, curr_a) and
\* (done_b, curr_b) put with no get in between: the single item get returns is
\* (done_a + done_b, curr_b).
C2_PairDequeMergeLaw ==
    (/\ kind = "PairDeque"
     /\ Len(putLog) = 2
     /\ NoNonePut
     /\ Len(gotLog) = 1
     /\ hq = <<>>)
    => gotLog[1].val = <<putLog[1].val[1] \o putLog[2].val[1], putLog[2].val[2]>>

\* the maximal runs of real items between the Nones of s
RECURSIVE Split(_)
Split(s) ==
    IF s = <<>> THEN << <<>> >>
    ELSE LET r == Split(Tail(s)) IN
         IF Head(s).none THEN << <<>> >> \o r
         ELSE << <<Head(s)>> \o Head(r) >> \o Tail(r)

\* the tokens a real item carries
ItemTokens(c) ==
    CASE kind = "MQPair" -> Range(c.val.cnfm) \cup Range(c.val.drft)
      [] kind = "MQData" -> Range(c.val.data)
      [] kind = "PairDeque" -> Range(c.val[1]) \cup Range(c.val[2])
      [] kind = "DataDeque" -> Range(c.val)

RunTokens(run) ==
    UNION {ItemTokens(run[i]) : i \in 1..Len(run)}

\* C3: in MergingQueue and in cmque Queue over PairDeque / DataDeque a None
\* is never merged: the Nones returned or still queued are as many as the
\* Nones put, and between two consecutive Nones the consumer finds real items
\* exactly when real items were put there, carrying only content that was put
\* between those same two Nones.
C3_SentinelNeverMerged ==
    LET P == Split(putLog)
        O == Split(HOut)
    IN  /\ Len(O) = Len(P)
        /\ \A i \in 1..Len(P) :
              /\ (O[i] = <<>>) <=> (P[i] = <<>>)
              /\ Len(O[i]) <= Len(P[i])
              /\ RunTokens(O[i]) \subseteq RunTokens(P[i])

\* C3 witness: real items were put before and after a None, and the consumer
\* has taken the None and then a real item put after it.
C3_Witness ==
    /\ Len(gotLog) >= 3
    /\ \E i \in 2..(Len(gotLog) - 1) :
          /\ gotLog[i].none
          /\ ~gotLog[i - 1].none
          /\ ~gotLog[i + 1].none
          /\ ItemTokens(gotLog[i + 1]) # {}
    /\ Len(putLog) > Len(gotLog)

----------------------------------------------------------------------------
(* core_parts/paragraph_detector.py: ParagraphDetector.  Durations are     *)
(* exact (ticks); the comparison with mean + k*std is done on squares.     *)

\* threshold_std = 1.5 = ThresholdStdNum / ThresholdStdDen
ThresholdStdNum ==
    3

ThresholdStdDen ==
    2

\* the characters " " and "\n" of a text
Space ==
    0

NL ==
    99

\* the "\n\n" a break appends to result_parts
ParaBreak ==
    <<NL, NL>>

RECURSIVE SumSeq(_)
SumSeq(s) ==
    IF s = <<>> THEN 0 ELSE Head(s) + SumSeq(Tail(s))

\* len(text.split()): the maximal runs of non-whitespace characters
WordCount(text) ==
    Cardinality({i \in 1..Len(text) :
                    /\ text[i] \notin {Space, NL}
                    /\ (i = 1 \/ text[i - 1] \in {Space, NL})})

\* ParagraphDetector.__init__ as the transcription stage calls it: the
\* parameters of the detector (threshold_std is ThresholdStdNum /
\* ThresholdStdDen throughout)
ParaParams ==
    [min_pause |-> ParaMinPause, max_chars |-> ParaMaxChars,
     max_words |-> ParaMaxWords, window_size |-> ParaWindowSize,
     warmup_count |-> ParaWarmupCount, warmup_threshold |-> ParaWarmupThreshold]

\* ParagraphDetector.__init__: the state of a new detector
NewDetector ==
    [pause_history |-> <<>>, current_para_chars |-> 0,
     current_para_words |-> 0, last_absolute_end |-> None]

\* an _add_pause that drops the new entry when the history is full
AddPauseKeepsOldest(p, hist, duration) ==
    IF duration > 0
    THEN LET h == Append(hist, duration) IN
         IF Len(h) > p.window_size THEN hist ELSE h
    ELSE hist

\* ParagraphDetector._add_pause
AddPause(p, hist, duration) ==
    IF duration > 0
    THEN LET h == Append(hist, duration) IN
         IF Len(h) > p.window_size THEN Tail(h) ELSE h
    ELSE hist

\* a warmup rule that is never used: the adaptive threshold from the first pause on
ExceedsThresholdNoWarmup(p, hist, pause) ==
    LET n == Len(hist)
        S == SumSeq(hist)
        Q == SumSeq([i \in 1..n |-> hist[i] * hist[i]])
        V == n * Q - S * S
        dev == n * pause - S
    IN  /\ pause > p.min_pause
        /\ dev > 0
        /\ ThresholdStdDen * ThresholdStdDen * dev * dev
               > ThresholdStdNum * ThresholdStdNum * V

\* pause_duration > self._get_adaptive_threshold(), for the history hist:
\* warmup_threshold while len(hist) < warmup_count, else
\* max(mean + threshold_std * std, min_pause) with the population std
ExceedsThreshold(p, hist, pause) ==
    IF Len(hist) < p.warmup_count
    THEN pause > p.warmup_threshold
    ELSE LET n == Len(hist)
             S == SumSeq(hist)
             Q == SumSeq([i \in 1..n |-> hist[i] * hist[i]])
             V == n * Q - S * S          \* n^2 * variance
             dev == n * pause - S        \* n * (pause - mean)
         IN  /\ pause > p.min_pause
             /\ dev > 0
             /\ ThresholdStdDen * ThresholdStdDen * dev * dev
                    > ThresholdStdNum * ThresholdStdNum * V

\* a reset that leaves the counters as they are
ResetParagraphKeepsCounters(d) ==
    d

\* ParagraphDetector._reset_paragraph
ResetParagraph(d) ==
    [d EXCEPT !.current_para_chars = 0, !.current_para_words = 0]

\* an iteration that examines the pause of a segment that already breaks
\* because of a hard cap
ProcessSegmentExaminesPauseAtCap(p, d, seg, time_offset) ==
    LET text == seg.text
        absolute_start == seg.start + time_offset
        absolute_end == seg.end + time_offset
        new_chars == d.current_para_chars + Len(text)
        new_words == d.current_para_words + WordCount(text)
        hard == /\ d.current_para_chars > 0
                /\ (new_chars > p.max_chars \/ new_words > p.max_words)
        timed == ~d.last_absolute_end.none
        pause_duration == absolute_start - d.last_absolute_end.val
        hist == IF timed /\ pause_duration > 0
                THEN AddPause(p, d.pause_history, pause_duration)
                ELSE d.pause_history
        should_break == \/ hard
                        \/ /\ timed
                           /\ pause_duration > 0
                           /\ pause_duration >= p.min_pause
                           /\ ExceedsThreshold(p, hist, pause_duration)
        broken == IF should_break THEN ResetParagraph(d) ELSE d
    IN  [d |-> [pause_history |-> hist,
                current_para_chars |-> broken.current_para_chars + Len(text),
                current_para_words |-> broken.current_para_words + WordCount(text),
                last_absolute_end |-> Some(absolute_end)],
         out |-> (IF should_break THEN ParaBreak ELSE <<>>) \o text]

\* one iteration of the loop of process_segments: the detector state after
\* the segment and the parts appended to result_parts
ProcessSegment(p, d, seg, time_offset) ==
    LET text == seg.text
        absolute_start == seg.start + time_offset
        absolute_end == seg.end + time_offset
        new_chars == d.current_para_chars + Len(text)
        new_words == d.current_para_words + WordCount(text)
        hard == /\ d.current_para_chars > 0
                /\ (new_chars > p.max_chars \/ new_words > p.max_words)
        timed == ~hard /\ ~d.last_absolute_end.none
        pause_duration == absolute_start - d.last_absolute_end.val
        hist == IF timed /\ pause_duration > 0
                THEN AddPause(p, d.pause_history, pause_duration)
                ELSE d.pause_history
        should_break == \/ hard
                        \/ /\ timed
                           /\ pause_duration > 0
                           /\ pause_duration >= p.min_pause
                           /\ ExceedsThreshold(p, hist, pause_duration)
        broken == IF should_break THEN ResetParagraph(d) ELSE d
    IN  [d |-> [pause_history |-> hist,
                current_para_chars |-> broken.current_para_chars + Len(text),
                current_para_words |-> broken.current_para_words + WordCount(text),
                last_absolute_end |-> Some(absolute_end)],
         out |-> (IF should_break THEN ParaBreak ELSE <<>>) \o text]

\* the loop "for segment in segments" of process_segments
RECURSIVE SegmentLoop(_, _, _, _)
SegmentLoop(p, d, segments, time_offset) ==
    IF segments = <<>> THEN [d |-> d, out |-> <<>>]
    ELSE LET one == ProcessSegment(p, d, Head(segments), time_offset)
             rest == SegmentLoop(p, one.d, Tail(segments), time_offset)
         IN  [d |-> rest.d, out |-> one.out \o rest.out]

\* a call with no segments that starts a new paragraph
ProcessSegmentsResetsOnEmpty(p, d, segments, time_offset) ==
    IF segments = <<>> THEN [d |-> ResetParagraph(d), out |-> <<>>]
    ELSE SegmentLoop(p, d, segments, time_offset)

\* ParagraphDetector.process_segments: [d |-> state after, out |-> returned text]
ProcessSegments(p, d, segments, time_offset) ==
    IF segments = <<>> THEN [d |-> d, out |-> <<>>]
    ELSE SegmentLoop(p, d, segments, time_offset)

----------------------------------------------------------------------------
(* The transcription update: WhisperTranscriptionService.update            *)
(* (whisper_impl.py) and the loop body of ts_proc (processing.py).         *)

\* SAMPLE_WIDTH: bytes per sample of the bytearray window of ts_proc
SAMPLE_WIDTH ==
    2

\* elements of the window per sample: bytes in ts_proc, samples in whisper_impl
Width(impl) ==
    IF impl = "proc" THEN SAMPLE_WIDTH ELSE 1

Max(a, b) ==
    IF a >= b THEN a ELSE b

Min(a, b) ==
    IF a <= b THEN a ELSE b

\* len(window) // SAMPLE_WIDTH / TARGET_SAMPLE_RATE, in ticks
WindowDuration(wl, impl) ==
    (wl \div Width(impl)) * TicksPerSample

\* max(duration - patience, 0.0)
Boundary0(duration, pat) ==
    Max(duration - pat, 0)

\* the scan with > in place of >= (a segment ending exactly at the boundary
\* is confirmed)
RECURSIVE SplitIndexStrict(_, _)
SplitIndexStrict(segments, b) ==
    IF segments = <<>> \/ Head(segments).end > b THEN 0
    ELSE 1 + SplitIndexStrict(Tail(segments), b)

\* i after the for loop: the segments before the first one with end >= boundary
RECURSIVE SplitIndex(_, _)
SplitIndex(segments, b) ==
    IF segments = <<>> \/ Head(segments).end >= b THEN 0
    ELSE 1 + SplitIndex(Tail(segments), b)

\* the scan without the pull-back to segment.start
BoundaryNoPullBack(segments, b0) ==
    b0

\* boundary / start after the for loop
Boundary(segments, b0) ==
    LET i == SplitIndex(segments, b0) IN
    IF i < Len(segments) /\ segments[i + 1].start < b0
    THEN segments[i + 1].start
    ELSE b0

\* the trim without the "* SAMPLE_WIDTH" factor
TrimElemsNoWidth(boundary, impl) ==
    boundary \div TicksPerSample

\* int(boundary * sample_rate) [* SAMPLE_WIDTH]: elements cut from the front
TrimElems(boundary, impl) ==
    (boundary \div TicksPerSample) * Width(impl)

RECURSIVE ConcatText(_)
ConcatText(segments) ==
    IF segments = <<>> THEN <<>> ELSE Head(segments).text \o ConcatText(Tail(segments))

\* the text of the j-th segment of a response: one word, or two words
SegText(j) ==
    IF j % 2 = 1 THEN <<j>> ELSE <<j, Space, j>>

\* the j-th segment of a response, starting at lo or later
SegsFrom(j, lo, duration) ==
    UNION {{[start |-> a, end |-> b, text |-> SegText(j)] : b \in a..duration} :
            a \in lo..duration}

\* the segment lists the oracle may return for a window of the given duration:
\* at most MaxSegs segments, 0 <= start <= end <= duration, in chronological
\* order of their starts (they may overlap)
RECURSIVE SegLists(_, _, _)
SegLists(j, lo, duration) ==
    IF j > MaxSegs THEN {<<>>}
    ELSE {<<>>} \cup
         UNION {{<<sg>> \o rest : rest \in SegLists(j + 1, sg.start, duration)} :
                 sg \in SegsFrom(j, lo, duration)}

OracleSegs(duration) ==
    SegLists(1, 0, duration)

\* a deque that drops from the right: the new items are the ones lost
DequeExtendKeepsOldest(dq, items, maxlen) ==
    LET all == dq \o items
    IN  IF Len(all) > maxlen THEN SubSeq(all, 1, maxlen) ELSE all

\* collections.deque(maxlen=maxlen): the deque dq after extend(items), or
\* deque(items, maxlen) for an empty dq; each append beyond maxlen drops the
\* leftmost item
DequeExtend(dq, items, maxlen) ==
    LET all == dq \o items
    IN  IF Len(all) > maxlen THEN SubSeq(all, Len(all) - maxlen + 1, Len(all)) ELSE all

\* "".join(prompts)
RECURSIVE JoinTexts(_)
JoinTexts(texts) ==
    IF texts = <<>> THEN <<>> ELSE Head(texts) \o JoinTexts(Tail(texts))

\* the prompt list the stage is constructed with: [prompt] in proc and in
\* the window that builds the service, or a longer list of prompts
InitialPrompts ==
    IF tsImpl = "proc" THEN {<< <<50>> >>}
    ELSE {<< <<50>> >>, << <<50>>, <<51>> >>}

\* an offset that advances by the whole samples the trim removed
AdvanceOffsetByWholeSamples(offset, start) ==
    offset + (start \div TicksPerSample) * TicksPerSample

\* cumulative_offset += start
AdvanceOffset(offset, start) ==
    offset + start

\* a response lists chronological, non-overlapping segments with
\* non-negative start times
Chronological(segs) ==
    \A k \in 1..Len(segs) :
        /\ segs[k].start >= 0
        /\ segs[k].end >= segs[k].start
        /\ k > 1 => segs[k].start >= segs[k - 1].end

InitT ==
    /\ tsImpl \in {"whisper", "proc"}
    /\ paraOn \in (IF tsImpl = "proc" THEN BOOLEAN ELSE {FALSE})
    /\ patience \in 0..MaxPatience
    /\ wlen = 0
    /\ cumulative_offset = 0
    /\ deleted = 0
    /\ nupd = 0
    /\ det = [pause_history |-> <<>>, current_para_chars |-> 0,
               current_para_words |-> 0, last_absolute_end |-> None]
    /\ tsPc = "get"
    /\ tsObs = <<>>
    /\ memory \in 1..MaxMemory
    /\ \E init \in InitialPrompts : prompts = DequeExtend(<<>>, init, memory)
    /\ chronological = TRUE
    /\ QIdle
    /\ EIdle
    /\ PIdle
    /\ HIdle
    /\ DIdle
    /\ AIdle

\* the update begins: a frame of f samples is taken and appended to the
\* window (window.extend(frame) / np.concatenate); the locals of the previous
\* update are dead
TsFrame ==
    /\ tsPc = "get"
    /\ nupd < MaxUpdates
    /\ \E f \in 1..MaxFrame : wlen' = wlen + f * Width(tsImpl)
    /\ tsPc' = "transcribe"
    /\ tsObs' = <<>>
    /\ UNCHANGED <<tsImpl, paraOn, patience, cumulative_offset, deleted, nupd, det,
                   memory, prompts, chronological>>
    /\ UNCHANGED othersT

\* the oracle answers with segs: the segments are split at the patience
\* boundary, the window is cut and the Pair (cnfm, drft) is produced
TsUpdate ==
    /\ tsPc = "transcribe"
    /\ LET duration == WindowDuration(wlen, tsImpl) IN
       \E segs \in OracleSegs(duration) :
         LET b0 == Boundary0(duration, patience)
             i == SplitIndex(segs, b0)
             boundary == Boundary(segs, b0)
             done_segments == SubSeq(segs, 1, i)
             usePara == tsImpl = "proc" /\ paraOn /\ done_segments # <<>>
             pd == ProcessSegments(ParaParams, det, done_segments, cumulative_offset)
             cnfm == IF usePara THEN pd.out ELSE ConcatText(done_segments)
             drft == ConcatText(SubSeq(segs, i + 1, Len(segs)))
             cut == Min(TrimElems(boundary, tsImpl), wlen)
         IN  /\ det' = IF usePara THEN pd.d ELSE det
             /\ cumulative_offset' = IF tsImpl = "proc"
                                      THEN AdvanceOffset(cumulative_offset, boundary)
                                      ELSE cumulative_offset
             /\ chronological' = (chronological /\ Chronological(segs))
             /\ wlen' = wlen - cut
             /\ deleted' = deleted + (cut \div Width(tsImpl))
             /\ nupd' = nupd + 1
             /\ prompts' = DequeExtend(prompts,
                                        [k \in 1..i |-> done_segments[k].text], memory)
             /\ tsObs' = [segs |-> segs, pre |-> wlen, b0 |-> b0, i |-> i,
                           boundary |-> boundary, cnfm |-> cnfm, drft |-> drft,
                           initial_prompt |-> JoinTexts(prompts)]
    /\ tsPc' = "get"
    /\ UNCHANGED <<tsImpl, paraOn, patience, memory>>
    /\ UNCHANGED othersT

NextT ==
    \/ TsFrame
    \/ TsUpdate

SpecT ==
    InitT /\ [][NextT]_vars

----------------------------------------------------------------------------
(* Properties of the transcription update.  They are stated on the locals  *)
(* of the latest update (tsObs) and on the window before and after it.     *)

TsUpdated ==
    tsObs # <<>>

\* duration of the window the oracle saw, and the patience boundary, in ticks
ObsDuration ==
    (tsObs.pre \div Width(tsImpl)) * TicksPerSample

ObsPatienceBoundary ==
    IF ObsDuration - patience > 0 THEN ObsDuration - patience ELSE 0

\* the number of segments that precede the first segment with end >= boundary
ObsSplit ==
    CHOOSE k \in 0..Len(tsObs.segs) :
        /\ \A j \in 1..k : tsObs.segs[j].end < ObsPatienceBoundary
        /\ k < Len(tsObs.segs) => tsObs.segs[k + 1].end >= ObsPatienceBoundary

ObsHasDraft ==
    ObsSplit < Len(tsObs.segs)

\* samples in the window before and after the cut of the latest update
ObsSamplesBefore ==
    tsObs.pre \div Width(tsImpl)

ObsSamplesAfter ==
    wlen \div Width(tsImpl)

\* the texts of segs, each optionally preceded by a paragraph break
RECURSIVE WithBreaks(_)
WithBreaks(segs) ==
    IF segs = <<>> THEN {<<>>}
    ELSE {pre \o Head(segs).text \o rest :
            pre \in {<<>>, ParaBreak}, rest \in WithBreaks(Tail(segs))}

\* C5 (as claimed): in every update the confirmed text is exactly the
\* concatenation of the texts of the segments before the first segment whose
\* end >= boundary, and the draft is the concatenation of the remaining texts.
C5_ConfirmedIsPlainConcat ==
    TsUpdated =>
        /\ tsObs.cnfm = ConcatText(SubSeq(tsObs.segs, 1, ObsSplit))
        /\ tsObs.drft = ConcatText(SubSeq(tsObs.segs, ObsSplit + 1, Len(tsObs.segs)))

\* C5 (amended): the confirmed segments are exactly those before the first
\* segment whose end >= boundary and the draft is the concatenation of the
\* remaining texts; the confirmed text is the concatenation of the confirmed
\* segments' texts, exactly so in WhisperTranscriptionService.update and in
\* proc without paragraph detection, and with a paragraph break possibly
\* inserted before a segment in proc with paragraph detection.
C5_ConfirmedConcatUpToBreaks ==
    TsUpdated =>
        /\ tsObs.i = ObsSplit
        /\ tsObs.drft = ConcatText(SubSeq(tsObs.segs, ObsSplit + 1, Len(tsObs.segs)))
        /\ tsObs.cnfm \in WithBreaks(SubSeq(tsObs.segs, 1, ObsSplit))
        /\ ~(tsImpl = "proc" /\ paraOn) =>
              tsObs.cnfm = ConcatText(SubSeq(tsObs.segs, 1, ObsSplit))

\* C5 witness: proc with paragraph detection produced a confirmed text that
\* holds a paragraph break, next to a non-empty draft.
C5_Witness ==
    /\ TsUpdated
    /\ tsImpl = "proc"
    /\ paraOn
    /\ NL \in Range(tsObs.cnfm)
    /\ tsObs.drft # <<>>

\* C6: the cut never reaches into a draft segment: the trim boundary is at
\* most the start of the first draft segment (equal to it when the segment
\* starts before the patience boundary, the patience boundary otherwise), and
\* the samples cut end at or before the start of every draft segment.
C6_NeverTrimsIntoDraft ==
    (TsUpdated /\ ObsHasDraft) =>
        LET fd == tsObs.segs[ObsSplit + 1] IN
        /\ tsObs.boundary <= fd.start
        /\ fd.start < ObsPatienceBoundary => tsObs.boundary = fd.start
        /\ fd.start >= ObsPatienceBoundary => tsObs.boundary = ObsPatienceBoundary
        /\ \A j \in (ObsSplit + 1)..Len(tsObs.segs) :
              (ObsSamplesBefore - ObsSamplesAfter) * TicksPerSample <= tsObs.segs[j].start

\* C6 witness: the first draft segment starts before the patience boundary,
\* the boundary was pulled back to it, and samples were cut.
C6_Witness ==
    /\ TsUpdated
    /\ ObsHasDraft
    /\ tsObs.segs[ObsSplit + 1].start < ObsPatienceBoundary
    /\ ObsSamplesBefore - ObsSamplesAfter >= 1
    /\ ObsSamplesAfter >= 1

\* C7 (as claimed): cumulative_offset * sample_rate differs from the number
\* of samples deleted from the window by less than one sample.
C7_OffsetWithinOneSample ==
    tsImpl = "proc" =>
        /\ cumulative_offset - deleted * TicksPerSample < TicksPerSample
        /\ deleted * TicksPerSample - cumulative_offset < TicksPerSample

\* C8: after an update the retained window is shorter than one sample more
\* than max(patience, pre-trim duration - start of the first draft segment),
\* and the cut leaves less than one sample of the audio that lies before both
\* the patience boundary and the first draft segment.
C8_WindowBounded ==
    TsUpdated =>
        LET fds == IF ObsHasDraft THEN tsObs.segs[ObsSplit + 1].start ELSE ObsDuration
            span == ObsDuration - fds
            bound == IF patience >= span THEN patience ELSE span
            keepFrom == IF ObsPatienceBoundary <= fds THEN ObsPatienceBoundary ELSE fds
        IN  /\ ObsSamplesAfter * TicksPerSample < bound + TicksPerSample
            /\ (ObsSamplesBefore - ObsSamplesAfter + 1) * TicksPerSample > keepFrom

\* C8 witness: a draft segment that starts before the patience boundary keeps
\* the window longer than patience, and samples were cut.
C8_Witness ==
    /\ TsUpdated
    /\ ObsHasDraft
    /\ tsObs.segs[ObsSplit + 1].start < ObsPatienceBoundary
    /\ ObsSamplesAfter * TicksPerSample > patience
    /\ ObsSamplesBefore > ObsSamplesAfter
    /\ patience > 0

----------------------------------------------------------------------------
(* whispering/core/engine.py: STTEngine.  The task started by start()      *)
(* constructs the engine, reports on_failure or on_success and runs _run;  *)
(* _run starts the three workers, joins them and calls on_stopped.  The    *)
(* transcription and translation services are abstract: update returns a   *)
(* fresh Pair or raises.  Every object carries its own reference as token. *)

CallbackNames ==
    {"on_failure", "on_success", "on_stopped", "on_record_error",
     "on_transc_error", "on_transl_error"}

QueueNames ==
    {"frame", "ts2tl", "tsres", "tlres"}

\* bookkeeping of a put: Nones put on q, and whether a put followed a None
QPutStat(st, q, item) ==
    [st EXCEPT ![q] = [nones |-> @.nones + (IF item.none THEN 1 ELSE 0),
                       after |-> @.after \/ @.nones > 0]]

Called(st, c) ==
    [st EXCEPT ![c] = @ + 1]

InitE ==
    /\ EIdle
    /\ QIdle
    /\ TIdle
    /\ PIdle
    /\ HIdle
    /\ DIdle
    /\ AIdle

\* task() of STTEngine.start: the constructor raises and on_failure is
\* called, or it returns and on_success(eng) is called
EngConstruct ==
    /\ supPc = "construct"
    /\ \E ok \in BOOLEAN :
         IF ok THEN /\ calls' = Called(calls, "on_success")
                    /\ supPc' = "run"
               ELSE /\ calls' = Called(calls, "on_failure")
                    /\ supPc' = "failed"
    /\ UNCHANGED <<is_running, stopCalled, recPc, trPc, trSrc, tlPc, tlSrc, eheap,
                   frameQ, ts2tlQ, tsresQ, tlresQ, qstat, nreads,
                   tsReturned, uiTsTaken, tlTaken, uiTsNone, tlNone>>
    /\ UNCHANGED othersE

\* _run, lines 96-102: is_running = True and the three threads are started
EngRunStart ==
    /\ supPc = "run"
    /\ is_running' = TRUE
    /\ recPc' = "enter"
    /\ trPc' = "get"
    /\ tlPc' = "get"
    /\ supPc' = "join"
    /\ UNCHANGED <<stopCalled, trSrc, tlSrc, eheap,
                   frameQ, ts2tlQ, tsresQ, tlresQ, calls, qstat, nreads,
                   tsReturned, uiTsTaken, tlTaken, uiTsNone, tlNone>>
    /\ UNCHANGED othersE

\* a _run that joins only the record thread before on_stopped
WorkersJoinedRecordOnly ==
    recPc = "done"

\* the three join() calls of _run have returned
WorkersJoined ==
    /\ recPc = "done"
    /\ trPc = "done"
    /\ tlPc = "done"

\* _run, lines 103-106: the joins return and on_stopped is called
EngRunJoin ==
    /\ supPc = "join"
    /\ WorkersJoined
    /\ calls' = Called(calls, "on_stopped")
    /\ supPc' = "stopped"
    /\ UNCHANGED <<is_running, stopCalled, recPc, trPc, trSrc, tlPc, tlSrc, eheap,
                   frameQ, ts2tlQ, tsresQ, tlresQ, qstat, nreads,
                   tsReturned, uiTsTaken, tlTaken, uiTsNone, tlNone>>
    /\ UNCHANGED othersE

\* stop(), called by whoever was handed the engine by on_success
EngStop ==
    /\ calls["on_success"] = 1
    /\ ~stopCalled
    /\ stopCalled' = TRUE
    /\ is_running' = FALSE
    /\ UNCHANGED <<supPc, recPc, trPc, trSrc, tlPc, tlSrc, eheap,
                   frameQ, ts2tlQ, tsresQ, tlresQ, calls, qstat, nreads,
                   tsReturned, uiTsTaken, tlTaken, uiTsNone, tlNone>>
    /\ UNCHANGED othersE

\* _record_task: "with self.record_service" is entered; if __enter__ raises,
\* on_record_error is called and the finally block puts None
RecEnter ==
    /\ recPc = "enter"
    /\ \E ok \in BOOLEAN :
         IF ok THEN /\ recPc' = "loop"
                    /\ UNCHANGED <<frameQ, calls, qstat>>
               ELSE /\ calls' = Called(calls, "on_record_error")
                    /\ frameQ' = MQPutDeque(frameQ, None)
                    /\ qstat' = QPutStat(qstat, "frame", None)
                    /\ recPc' = "done"
    /\ UNCHANGED <<supPc, is_running, stopCalled, trPc, trSrc, tlPc, tlSrc, eheap,
                   ts2tlQ, tsresQ, tlresQ, nreads,
                   tsReturned, uiTsTaken, tlTaken, uiTsNone, tlNone>>
    /\ UNCHANGED othersE

\* _record_task, one iteration while is_running: read() returns a fresh Data
\* that is put on the frame queue, or raises (error callback, finally: None)
RecRead ==
    /\ recPc = "loop"
    /\ is_running
    /\ nreads < MaxReads
    /\ \E ok \in BOOLEAN :
         IF ok THEN LET ref == Len(eheap) + 1
                        hp == Append(eheap, Data(<<ref>>))
                    IN  /\ frameQ' = MQPutDeque(frameQ, Some(ref))
                        /\ eheap' = MQPutHeap(frameQ, hp, Some(ref))
                        /\ qstat' = QPutStat(qstat, "frame", Some(ref))
                        /\ nreads' = nreads + 1
                        /\ UNCHANGED <<recPc, calls>>
               ELSE /\ calls' = Called(calls, "on_record_error")
                    /\ frameQ' = MQPutDeque(frameQ, None)
                    /\ qstat' = QPutStat(qstat, "frame", None)
                    /\ recPc' = "done"
                    /\ UNCHANGED <<eheap, nreads>>
    /\ UNCHANGED <<supPc, is_running, stopCalled, trPc, trSrc, tlPc, tlSrc,
                   ts2tlQ, tsresQ, tlresQ,
                   tsReturned, uiTsTaken, tlTaken, uiTsNone, tlNone>>
    /\ UNCHANGED othersE

\* _record_task: is_running is found False, the with block is left (its
\* __exit__ may raise: error callback) and the finally block puts None
RecExit ==
    /\ recPc = "loop"
    /\ ~is_running
    /\ \E ok \in BOOLEAN :
         calls' = IF ok THEN calls ELSE Called(calls, "on_record_error")
    /\ frameQ' = MQPutDeque(frameQ, None)
    /\ qstat' = QPutStat(qstat, "frame", None)
    /\ recPc' = "done"
    /\ UNCHANGED <<supPc, is_running, stopCalled, trPc, trSrc, tlPc, tlSrc, eheap,
                   ts2tlQ, tsresQ, tlresQ, nreads,
                   tsReturned, uiTsTaken, tlTaken, uiTsNone, tlNone>>
    /\ UNCHANGED othersE

\* a finally block that ends after its first put
TranscFinallySkipsResult ==
    "done"

\* _transc_task, finally: after transc2transl_queue.put(None) comes
\* transc_result_queue.put(None)
TranscFinallyNext ==
    "fin2"

\* _transc_task: frame := record_result_queue.get(); on None the loop ends;
\* else transc_service.update(frame) returns a fresh Pair or raises
TranscGet ==
    /\ trPc = "get"
    /\ MQNonEmpty(frameQ)
    /\ frameQ' = Tail(frameQ)
    /\ IF Head(frameQ).none
       THEN /\ trPc' = "fin1"
            /\ UNCHANGED <<trSrc, eheap, calls, tsReturned>>
       ELSE \E ok \in BOOLEAN :
              IF ok THEN \E c \in TokStr(Len(eheap) + 1) :
                           /\ eheap' = Append(eheap, Pair(c, <<Len(eheap) + 1>>))
                           /\ trSrc' = Len(eheap) + 1
                           /\ tsReturned' = tsReturned \o c
                           /\ trPc' = "put1"
                           /\ UNCHANGED calls
                    ELSE /\ calls' = Called(calls, "on_transc_error")
                         /\ trPc' = "fin1"
                         /\ UNCHANGED <<trSrc, eheap, tsReturned>>
    /\ UNCHANGED <<supPc, is_running, stopCalled, recPc, tlPc, tlSrc,
                   ts2tlQ, tsresQ, tlresQ, qstat, nreads,
                   uiTsTaken, tlTaken, uiTsNone, tlNone>>
    /\ UNCHANGED othersE

\* _transc_task: self.transc2transl_queue.put(src)
TranscPut1 ==
    /\ trPc = "put1"
    /\ ts2tlQ' = MQPutDeque(ts2tlQ, Some(trSrc))
    /\ eheap' = MQPutHeap(ts2tlQ, eheap, Some(trSrc))
    /\ qstat' = QPutStat(qstat, "ts2tl", Some(trSrc))
    /\ trPc' = "put2"
    /\ UNCHANGED <<supPc, is_running, stopCalled, recPc, trSrc, tlPc, tlSrc,
                   frameQ, tsresQ, tlresQ, calls, nreads,
                   tsReturned, uiTsTaken, tlTaken, uiTsNone, tlNone>>
    /\ UNCHANGED othersE

\* _transc_task: self.transc_result_queue.put(src), the same object
TranscPut2 ==
    /\ trPc = "put2"
    /\ tsresQ' = MQPutDeque(tsresQ, Some(trSrc))
    /\ eheap' = MQPutHeap(tsresQ, eheap, Some(trSrc))
    /\ qstat' = QPutStat(qstat, "tsres", Some(trSrc))
    /\ trPc' = "get"
    /\ trSrc' = 0
    /\ UNCHANGED <<supPc, is_running, stopCalled, recPc, tlPc, tlSrc,
                   frameQ, ts2tlQ, tlresQ, calls, nreads,
                   tsReturned, uiTsTaken, tlTaken, uiTsNone, tlNone>>
    /\ UNCHANGED othersE

\* _transc_task, finally: self.transc2transl_queue.put(None)
TranscFin1 ==
    /\ trPc = "fin1"
    /\ ts2tlQ' = MQPutDeque(ts2tlQ, None)
    /\ qstat' = QPutStat(qstat, "ts2tl", None)
    /\ trPc' = TranscFinallyNext
    /\ UNCHANGED <<supPc, is_running, stopCalled, recPc, trSrc, tlPc, tlSrc, eheap,
                   frameQ, tsresQ, tlresQ, calls, nreads,
                   tsReturned, uiTsTaken, tlTaken, uiTsNone, tlNone>>
    /\ UNCHANGED othersE

\* _transc_task, finally: self.transc_result_queue.put(None)
TranscFin2 ==
    /\ trPc = "fin2"
    /\ tsresQ' = MQPutDeque(tsresQ, None)
    /\ qstat' = QPutStat(qstat, "tsres", None)
    /\ trPc' = "done"
    /\ UNCHANGED <<supPc, is_running, stopCalled, recPc, trSrc, tlPc, tlSrc, eheap,
                   frameQ, ts2tlQ, tlresQ, calls, nreads,
                   tsReturned, uiTsTaken, tlTaken, uiTsNone, tlNone>>
    /\ UNCHANGED othersE

\* _transl_task: src := transc2transl_queue.get(); on None the loop ends and
\* the finally block puts None on the TL result queue
TranslGet ==
    /\ tlPc = "get"
    /\ MQNonEmpty(ts2tlQ)
    /\ ts2tlQ' = Tail(ts2tlQ)
    /\ IF Head(ts2tlQ).none
       THEN /\ tlNone' = TRUE
            /\ tlresQ' = MQPutDeque(tlresQ, None)
            /\ qstat' = QPutStat(qstat, "tlres", None)
            /\ tlPc' = "done"
            /\ UNCHANGED <<tlSrc, tlTaken>>
       ELSE /\ tlSrc' = Head(ts2tlQ).val
            /\ tlTaken' = tlTaken \o eheap[Head(ts2tlQ).val].cnfm
            /\ tlPc' = "update"
            /\ UNCHANGED <<tlNone, tlresQ, qstat>>
    /\ UNCHANGED <<supPc, is_running, stopCalled, recPc, trPc, trSrc, eheap,
                   frameQ, tsresQ, calls, nreads,
                   tsReturned, uiTsTaken, uiTsNone>>
    /\ UNCHANGED othersE

\* _transl_task: transl_service.update(src) returns a fresh Pair that is put
\* on the TL result queue, or raises (error callback, finally: None)
TranslUpdate ==
    /\ tlPc = "update"
    /\ \E ok \in BOOLEAN :
         IF ok THEN LET ref == Len(eheap) + 1
                        hp == Append(eheap, Pair(<<ref>>, <<ref>>))
                    IN  /\ tlresQ' = MQPutDeque(tlresQ, Some(ref))
                        /\ eheap' = MQPutHeap(tlresQ, hp, Some(ref))
                        /\ qstat' = QPutStat(qstat, "tlres", Some(ref))
                        /\ tlPc' = "get"
                        /\ UNCHANGED calls
               ELSE /\ calls' = Called(calls, "on_transl_error")
                    /\ tlresQ' = MQPutDeque(tlresQ, None)
                    /\ qstat' = QPutStat(qstat, "tlres", None)
                    /\ tlPc' = "done"
                    /\ UNCHANGED eheap
    /\ tlSrc' = 0
    /\ UNCHANGED <<supPc, is_running, stopCalled, recPc, trPc, trSrc,
                   frameQ, ts2tlQ, tsresQ, nreads,
                   tsReturned, uiTsTaken, tlTaken, uiTsNone, tlNone>>
    /\ UNCHANGED othersE

\* the UI (Text.update of the transcription pane): result_queue.get()
UiTsGet ==
    /\ MQNonEmpty(tsresQ)
    /\ tsresQ' = Tail(tsresQ)
    /\ IF Head(tsresQ).none
       THEN /\ uiTsNone' = TRUE
            /\ UNCHANGED uiTsTaken
       ELSE /\ uiTsTaken' = uiTsTaken \o eheap[Head(tsresQ).val].cnfm
            /\ UNCHANGED uiTsNone
    /\ UNCHANGED <<supPc, is_running, stopCalled, recPc, trPc, trSrc, tlPc, tlSrc, eheap,
                   frameQ, ts2tlQ, tlresQ, calls, qstat, nreads,
                   tsReturned, tlTaken, tlNone>>
    /\ UNCHANGED othersE

\* the UI (Text.update of the translation pane): result_queue.get()
UiTlGet ==
    /\ MQNonEmpty(tlresQ)
    /\ tlresQ' = Tail(tlresQ)
    /\ UNCHANGED <<supPc, is_running, stopCalled, recPc, trPc, trSrc, tlPc, tlSrc, eheap,
                   frameQ, ts2tlQ, tsresQ, calls, qstat, nreads,
                   tsReturned, uiTsTaken, tlTaken, uiTsNone, tlNone>>
    /\ UNCHANGED othersE

NextE ==
    \/ EngConstruct
    \/ EngRunStart
    \/ EngRunJoin
    \/ EngStop
    \/ RecEnter
    \/ RecRead
    \/ RecExit
    \/ TranscGet
    \/ TranscPut1
    \/ TranscPut2
    \/ TranscFin1
    \/ TranscFin2
    \/ TranslGet
    \/ TranslUpdate
    \/ UiTsGet
    \/ UiTlGet

SpecE ==
    InitE /\ [][NextE]_vars

\* the thread started by start() is scheduled: task() runs the constructor
SpecEFair ==
    SpecE /\ WF_vars(EngConstruct)

----------------------------------------------------------------------------
(* Properties of the engine                                                *)

\* C4: for the TS result queue and for the TS->TL queue, the confirmed text
\* taken so far by the consumer is a prefix of the confirmed text returned
\* so far by the update calls of the transcription service, and is all of
\* it once the consumer has taken the None sentinel.
C4_ConfirmedIsPrefix ==
    /\ IsPrefix(uiTsTaken, tsReturned)
    /\ IsPrefix(tlTaken, tsReturned)
    /\ uiTsNone => uiTsTaken = tsReturned
    /\ tlNone => tlTaken = tsReturned

\* the content a deque of references holds, read through the heap hp
Held(dq, hp) ==
    [k \in 1..Len(dq) |-> IF dq[k].none THEN None ELSE Some(hp[dq[k].val])]

\* the object the translation task obtained from get is the same after the step
ObtainedUntouched ==
    (tlSrc # 0 /\ tlSrc' = tlSrc) => eheap'[tlSrc] = eheap[tlSrc]

\* C35: an item a consumer has obtained from get is never modified
\* afterwards, and the content one queue holds is never changed by a put on
\* another queue: the put on the TS->TL queue leaves what the TS result
\* queue holds as it is, and the put on the TS result queue leaves what the
\* TS->TL queue holds as it is, under every interleaving with the gets.
C35_QueuesIndependent ==
    [][/\ ObtainedUntouched
       /\ (trPc = "put1" /\ trPc' = "put2")
              => Held(tsresQ, eheap') = Held(tsresQ, eheap)
       /\ (trPc = "put2" /\ trPc' = "get")
              => Held(ts2tlQ, eheap') = Held(ts2tlQ, eheap)]_vars

\* C9: no queue of a session is put on after its None, and when on_stopped
\* has been invoked each of the four queues has received exactly one None.
C9_OneSentinelPerQueue ==
    /\ \A q \in QueueNames : ~qstat[q].after /\ qstat[q].nones <= 1
    /\ calls["on_stopped"] > 0 => \A q \in QueueNames : qstat[q].nones = 1

\* on_stopped was invoked after a stage error ended the session while data
\* had gone through every queue
C9_Witness ==
    /\ calls["on_stopped"] = 1
    /\ calls["on_success"] = 1
    /\ calls["on_transl_error"] = 1
    /\ tsReturned # <<>>
    /\ \A q \in QueueNames : qstat[q].nones = 1

C10_CallbackOrder ==
    /\ calls["on_failure"] + calls["on_success"] <= 1
    /\ supPc # "construct" => calls["on_failure"] + calls["on_success"] = 1
    /\ calls["on_failure"] = 1 => calls["on_stopped"] = 0
    /\ calls["on_stopped"] <= 1
    /\ calls["on_stopped"] = 1 =>
           /\ calls["on_success"] = 1
           /\ recPc = "done" /\ trPc = "done" /\ tlPc = "done"

\* C10: a call of start invokes exactly one of on_failure and on_success
\* (never both, and eventually one); on_stopped is never invoked after
\* on_failure, and after on_success at most once and only when the three
\* worker threads have terminated.
C10_ExactlyOneThenStopped ==
    /\ []C10_CallbackOrder
    /\ <>(calls["on_failure"] + calls["on_success"] = 1)

\* on_stopped was invoked once after on_success, the three workers done
C10_Witness ==
    /\ calls["on_success"] = 1
    /\ calls["on_stopped"] = 1
    /\ stopCalled
    /\ recPc = "done" /\ trPc = "done" /\ tlPc = "done"

----------------------------------------------------------------------------
(* Termination and error handling of the engine                            *)

\* every thread that is started gets to run, and every device read, oracle
\* call and provider call returns; only stop() is left to the caller
SpecELive ==
    /\ SpecE
    /\ WF_vars(EngConstruct) /\ WF_vars(EngRunStart) /\ WF_vars(EngRunJoin)
    /\ WF_vars(RecEnter) /\ WF_vars(RecRead) /\ WF_vars(RecExit)
    /\ WF_vars(TranscGet) /\ WF_vars(TranscPut1) /\ WF_vars(TranscPut2)
    /\ WF_vars(TranscFin1) /\ WF_vars(TranscFin2)
    /\ WF_vars(TranslGet) /\ WF_vars(TranslUpdate)

\* C11: a stop() called at any time after on_success is never lost: the
\* flag it clears stays cleared, and the call is eventually followed by
\* on_stopped (the capture worker leaves its loop and the two downstream
\* workers terminate on None).
C11_StopNeverLost ==
    /\ [](stopCalled => ~is_running)
    /\ stopCalled ~> (calls["on_stopped"] = 1)

ErrorCallbacks ==
    {"on_record_error", "on_transc_error", "on_transl_error"}

\* a worker that has terminated has put exactly one None on each of its
\* outbound queues, and no error callback is invoked twice
C13_WorkerEndState ==
    /\ \A e \in ErrorCallbacks : calls[e] <= 1
    /\ \A q \in QueueNames : qstat[q].nones <= 1
    /\ recPc = "done" => qstat["frame"].nones = 1
    /\ trPc = "done" => qstat["ts2tl"].nones = 1 /\ qstat["tsres"].nones = 1
    /\ tlPc = "done" => qstat["tlres"].nones = 1

\* a step that invokes an error callback is a step of that callback's own
\* worker, invokes no other callback, and sends the worker to its finally
\* block (or through it)
C13_ErrorStep ==
    /\ calls'["on_record_error"] # calls["on_record_error"] =>
           /\ recPc' = "done" /\ qstat'["frame"].nones = 1
           /\ trPc' = trPc /\ tlPc' = tlPc
           /\ \A c \in CallbackNames \ {"on_record_error"} : calls'[c] = calls[c]
    /\ calls'["on_transc_error"] # calls["on_transc_error"] =>
           /\ trPc' = "fin1"
           /\ recPc' = recPc /\ tlPc' = tlPc
           /\ \A c \in CallbackNames \ {"on_transc_error"} : calls'[c] = calls[c]
    /\ calls'["on_transl_error"] # calls["on_transl_error"] =>
           /\ tlPc' = "done" /\ qstat'["tlres"].nones = 1
           /\ recPc' = recPc /\ trPc' = trPc
           /\ \A c \in CallbackNames \ {"on_transl_error"} : calls'[c] = calls[c]

\* C13: a worker whose service call raises invokes its own error callback
\* exactly once, puts None exactly once on each of its outbound queues and
\* terminates; no other worker's callback is invoked for that exception.
C13_ErrorStaysInItsWorker ==
    /\ []C13_WorkerEndState
    /\ [][C13_ErrorStep]_vars

\* the transcription update raised: only on_transc_error was invoked, the
\* worker terminated and both of its outbound queues got their None
C13_Witness ==
    /\ calls["on_transc_error"] = 1
    /\ calls["on_record_error"] = 0
    /\ calls["on_transl_error"] = 0
    /\ trPc = "done"
    /\ qstat["ts2tl"].nones = 1 /\ qstat["tsres"].nones = 1

\* C15: after the transcription oracle raised or the audio device failed,
\* on_stopped is eventually invoked without anyone calling stop() (a
\* behaviour in which stop() is called is not what the claim is about).
C15_FatalErrorEndsSession ==
    ((calls["on_transc_error"] = 1 \/ calls["on_record_error"] = 1) /\ ~stopCalled)
        ~> (calls["on_stopped"] = 1 \/ stopCalled)

----------------------------------------------------------------------------
(* The frame queue                                                         *)

\* the samples carried by the real items of s, in order
RECURSIVE ConcatFrames(_)
ConcatFrames(s) ==
    IF s = <<>> THEN <<>>
    ELSE (IF Head(s).none THEN <<>>
          ELSE IF kind = "MQData" THEN Head(s).val.data ELSE Head(s).val)
         \o ConcatFrames(Tail(s))

\* C17: on the frame queue (Queue(DataDeque()) in proc, MergingQueue[Data]
\* in the engine), under every interleaving of puts and gets, the frames
\* returned by get followed by the frames still queued concatenate to the
\* concatenation of the frames put, in order: once the queue is drained the
\* consumer has received every sample exactly once.
C17_FramesPreserved ==
    kind \in {"MQData", "DataDeque"} =>
        /\ ConcatFrames(HOut) = ConcatFrames(putLog)
        /\ hq = <<>> => ConcatFrames(gotLog) = ConcatFrames(putLog)

\* three frames were put, two of them were merged in the queue, and get has
\* returned the merged frame and drained the queue
C17_Witness ==
    /\ kind \in {"MQData", "DataDeque"}
    /\ NoNonePut
    /\ Len(putLog) >= 3
    /\ hq = <<>>
    /\ Len(gotLog) = 2
    /\ Len(ConcatFrames(gotLog)) = 3

----------------------------------------------------------------------------
(* core_parts/processing.py: proc.  The body of proc loads the model,      *)
(* opens the stream, starts ts_proc and tl_proc, reads frames while        *)
(* ready[0] is true, then puts None and joins.  Queues are cmque Queues;   *)
(* what the oracle and the providers return is abstract.                   *)

PQueueNames ==
    {"frame", "ts2tl", "tsres", "tlres", "prres"}

AiModes ==
    {"http", "proofread", "proofread_translate"}

\* the frame of one read and the (done_src, curr_src) of one transcription
PFrame ==
    Some(<<1>>)

PPair ==
    Some(<<(<<1>>), (<<1>>)>>)

InitP ==
    /\ ready = "False"
    /\ error = "none"
    /\ procPc = "load"
    /\ ts_thread = "off"
    /\ tl_thread = "off"
    /\ frame_queue = <<>>
    /\ ts2tl_queue = <<>>
    /\ tsres_queue = <<>>
    /\ tlres_queue = <<>>
    /\ prres_queue = <<>>
    /\ hasPr \in BOOLEAN
    /\ aiMode \in AiModes
    /\ auto_stop_enabled \in BOOLEAN
    /\ stopBy = "none"
    /\ pnreads = 0
    /\ pstat = [q \in PQueueNames |-> [nones |-> 0, after |-> FALSE]]
    /\ QIdle
    /\ TIdle
    /\ EIdle
    /\ HIdle
    /\ DIdle
    /\ AIdle

\* which result queues one pass of the loop of tl_proc puts a Pair on
ProcessPlans ==
    IF aiMode = "http" THEN {[pr |-> FALSE, tl |-> TRUE]}
    ELSE {[pr |-> FALSE, tl |-> FALSE]} \cup
         (IF hasPr /\ aiMode = "proofread_translate"
          THEN {[pr |-> a, tl |-> b] : a \in BOOLEAN, b \in BOOLEAN}
          ELSE IF aiMode = "proofread" /\ hasPr
               THEN {[pr |-> TRUE, tl |-> FALSE]}
               ELSE {[pr |-> FALSE, tl |-> TRUE]})

\* which result queues the exit processing of tl_proc puts a Pair on
FlushPlans ==
    IF aiMode = "http" THEN {[pr |-> FALSE, tl |-> FALSE]}
    ELSE {[pr |-> FALSE, tl |-> FALSE]} \cup
         (IF hasPr /\ aiMode = "proofread_translate"
          THEN {[pr |-> a, tl |-> b] : a \in BOOLEAN, b \in BOOLEAN}
          ELSE {[pr |-> FALSE, tl |-> TRUE]})

\* cmque Queue.__bool__: bool(self.deque)
QueueBool(dq) ==
    Len(dq) > 0

\* the result queues and their bookkeeping after the puts of a plan
PlanPuts(plan) ==
    /\ tlres_queue' = IF plan.tl THEN PairDequeAppend(tlres_queue, PPair) ELSE tlres_queue
    /\ prres_queue' = IF plan.pr THEN PairDequeAppend(prres_queue, PPair) ELSE prres_queue
    /\ pstat' = LET st == IF plan.pr THEN QPutStat(pstat, "prres", PPair) ELSE pstat
                IN  IF plan.tl THEN QPutStat(st, "tlres", PPair) ELSE st

\* proc, lines 421-450: the model is loaded, the device queried and the stream
\* opened; then the two threads are started and ready[0] = True.  Any of
\* these raising leads to except (error[0]) and finally (ready[0] = None)
PLoad ==
    /\ procPc = "load"
    /\ \E ok \in BOOLEAN :
         IF ok THEN /\ ts_thread' = "get"
                    /\ tl_thread' = "get"
                    /\ ready' = "True"
                    /\ procPc' = "loop"
                    /\ UNCHANGED error
               ELSE /\ error' = "load"
                    /\ ready' = "None"
                    /\ procPc' = "done"
                    /\ UNCHANGED <<ts_thread, tl_thread>>
    /\ UNCHANGED <<frame_queue, ts2tl_queue, tsres_queue, tlres_queue, prres_queue,
                   hasPr, aiMode, auto_stop_enabled, stopBy, pnreads, pstat>>
    /\ UNCHANGED othersP

\* a loop test that goes on until ready[0] is None
ReadyUnlessNone(r) ==
    r # "None"

\* the truth value of ready[0] in "while ready[0]"
ReadyTruthy(r) ==
    r = "True"

\* proc, one pass of "while ready[0]": stream.read returns and the resampled
\* frame is put, or it raises: except (error[0]) and finally (ready[0] = None),
\* skipping frame_queue.put(None) and the joins
PRead ==
    /\ procPc = "loop"
    /\ ReadyTruthy(ready)
    /\ pnreads < MaxPReads
    /\ \E ok \in BOOLEAN :
         IF ok THEN /\ frame_queue' = DataDequeAppend(frame_queue, PFrame)
                    /\ pstat' = QPutStat(pstat, "frame", PFrame)
                    /\ pnreads' = pnreads + 1
                    /\ UNCHANGED <<ready, error, procPc>>
               ELSE /\ error' = "read"
                    /\ ready' = "None"
                    /\ procPc' = "done"
                    /\ UNCHANGED <<frame_queue, pstat, pnreads>>
    /\ UNCHANGED <<ts_thread, tl_thread, ts2tl_queue, tsres_queue, tlres_queue,
                   prres_queue, hasPr, aiMode, auto_stop_enabled, stopBy>>
    /\ UNCHANGED othersP

\* proc: ready[0] is found false, frame_queue.put(None)
PLoopExit ==
    /\ procPc = "loop"
    /\ ~ReadyTruthy(ready)
    /\ frame_queue' = DataDequeAppend(frame_queue, None)
    /\ pstat' = QPutStat(pstat, "frame", None)
    /\ procPc' = "joinTs"
    /\ UNCHANGED <<ready, error, ts_thread, tl_thread, ts2tl_queue, tsres_queue,
                   tlres_queue, prres_queue, hasPr, aiMode, auto_stop_enabled, stopBy,
                   pnreads>>
    /\ UNCHANGED othersP

\* proc: ts_thread.join() returns (the thread ended or died)
PJoinTs ==
    /\ procPc = "joinTs"
    /\ ts_thread \in {"done", "dead"}
    /\ procPc' = "joinTl"
    /\ UNCHANGED <<ready, error, ts_thread, tl_thread, frame_queue, ts2tl_queue,
                   tsres_queue, tlres_queue, prres_queue, hasPr, aiMode,
                   auto_stop_enabled, stopBy, pnreads, pstat>>
    /\ UNCHANGED othersP

\* proc: tl_thread.join() returns; finally: ready[0] = None
PJoinTl ==
    /\ procPc = "joinTl"
    /\ tl_thread = "done"
    /\ ready' = "None"
    /\ procPc' = "done"
    /\ UNCHANGED <<error, ts_thread, tl_thread, frame_queue, ts2tl_queue, tsres_queue,
                   tlres_queue, prres_queue, hasPr, aiMode, auto_stop_enabled, stopBy,
                   pnreads, pstat>>
    /\ UNCHANGED othersP

\* the UI (tui.py show, gui.py stop): the session is shown as started and the
\* user stops it: ready[0] = False
PUiStop ==
    /\ ready = "True"
    /\ ready' = "False"
    /\ stopBy' = "ui"
    /\ UNCHANGED <<error, procPc, ts_thread, tl_thread, frame_queue, ts2tl_queue,
                   tsres_queue, tlres_queue, prres_queue, hasPr, aiMode,
                   auto_stop_enabled, pnreads, pstat>>
    /\ UNCHANGED othersP

\* ts_proc: frame := frame_queue.get(); None ends the loop; else the window is
\* transcribed: the oracle returns, or raises and the thread dies (ts_proc
\* has no try)
PTsGet ==
    /\ ts_thread = "get"
    /\ Len(frame_queue) > 0
    /\ frame_queue' = Tail(frame_queue)
    /\ IF Head(frame_queue).none
       THEN ts_thread' = "fin1"
       ELSE \E ok \in BOOLEAN : ts_thread' = IF ok THEN "put1" ELSE "dead"
    /\ UNCHANGED <<ready, error, procPc, tl_thread, ts2tl_queue, tsres_queue,
                   tlres_queue, prres_queue, hasPr, aiMode, auto_stop_enabled, stopBy,
                   pnreads, pstat>>
    /\ UNCHANGED othersP

\* ts_proc: ts2tl_queue.put((done_src, curr_src))
PTsPut1 ==
    /\ ts_thread = "put1"
    /\ ts2tl_queue' = PairDequeAppend(ts2tl_queue, PPair)
    /\ pstat' = QPutStat(pstat, "ts2tl", PPair)
    /\ ts_thread' = "put2"
    /\ UNCHANGED <<ready, error, procPc, tl_thread, frame_queue, tsres_queue,
                   tlres_queue, prres_queue, hasPr, aiMode, auto_stop_enabled, stopBy,
                   pnreads>>
    /\ UNCHANGED othersP

\* ts_proc: tsres_queue.put((done_src, curr_src))
PTsPut2 ==
    /\ ts_thread = "put2"
    /\ tsres_queue' = PairDequeAppend(tsres_queue, PPair)
    /\ pstat' = QPutStat(pstat, "tsres", PPair)
    /\ ts_thread' = "get"
    /\ UNCHANGED <<ready, error, procPc, tl_thread, frame_queue, ts2tl_queue,
                   tlres_queue, prres_queue, hasPr, aiMode, auto_stop_enabled, stopBy,
                   pnreads>>
    /\ UNCHANGED othersP

\* ts_proc, after the loop: ts2tl_queue.put(None)
PTsFin1 ==
    /\ ts_thread = "fin1"
    /\ ts2tl_queue' = PairDequeAppend(ts2tl_queue, None)
    /\ pstat' = QPutStat(pstat, "ts2tl", None)
    /\ ts_thread' = "fin2"
    /\ UNCHANGED <<ready, error, procPc, tl_thread, frame_queue, tsres_queue,
                   tlres_queue, prres_queue, hasPr, aiMode, auto_stop_enabled, stopBy,
                   pnreads>>
    /\ UNCHANGED othersP

\* ts_proc, after the loop: tsres_queue.put(None)
PTsFin2 ==
    /\ ts_thread = "fin2"
    /\ tsres_queue' = PairDequeAppend(tsres_queue, None)
    /\ pstat' = QPutStat(pstat, "tsres", None)
    /\ ts_thread' = "done"
    /\ UNCHANGED <<ready, error, procPc, tl_thread, frame_queue, ts2tl_queue,
                   tlres_queue, prres_queue, hasPr, aiMode, auto_stop_enabled, stopBy,
                   pnreads>>
    /\ UNCHANGED othersP

\* tl_proc: ts2tl := ts2tl_queue.get(); None ends the loop; else either the
\* auto-stop test fires (ready[0] = False; break) or the Pair is processed
\* and the results are put
PTlGet ==
    /\ tl_thread = "get"
    /\ Len(ts2tl_queue) > 0
    /\ ts2tl_queue' = Tail(ts2tl_queue)
    /\ IF Head(ts2tl_queue).none
       THEN /\ tl_thread' = "flush"
            /\ UNCHANGED <<ready, stopBy, tlres_queue, prres_queue, pstat>>
       ELSE \/ /\ auto_stop_enabled
               /\ ready' = "False"
               /\ stopBy' = "auto"
               /\ tl_thread' = "flush"
               /\ UNCHANGED <<tlres_queue, prres_queue, pstat>>
            \/ /\ \E plan \in ProcessPlans : PlanPuts(plan)
               /\ UNCHANGED <<ready, stopBy, tl_thread>>
    /\ UNCHANGED <<error, procPc, ts_thread, frame_queue, tsres_queue, hasPr, aiMode,
                   auto_stop_enabled, pnreads>>
    /\ UNCHANGED othersP

\* tl_proc, lines 369-415: the remaining text is processed on exit
PTlFlush ==
    /\ tl_thread = "flush"
    /\ \E plan \in FlushPlans : PlanPuts(plan)
    /\ tl_thread' = "fin1"
    /\ UNCHANGED <<ready, error, procPc, ts_thread, frame_queue, ts2tl_queue,
                   tsres_queue, hasPr, aiMode, auto_stop_enabled, stopBy, pnreads>>
    /\ UNCHANGED othersP

\* tl_proc, line 417: tlres_queue.put(None)
PTlFin1 ==
    /\ tl_thread = "fin1"
    /\ tlres_queue' = PairDequeAppend(tlres_queue, None)
    /\ pstat' = QPutStat(pstat, "tlres", None)
    /\ tl_thread' = "fin2"
    /\ UNCHANGED <<ready, error, procPc, ts_thread, frame_queue, ts2tl_queue,
                   tsres_queue, prres_queue, hasPr, aiMode, auto_stop_enabled, stopBy,
                   pnreads>>
    /\ UNCHANGED othersP

\* tl_proc, lines 418-419: if prres_queue: prres_queue.put(None)
PTlFin2 ==
    /\ tl_thread = "fin2"
    /\ IF hasPr /\ QueueBool(prres_queue)
       THEN /\ prres_queue' = PairDequeAppend(prres_queue, None)
            /\ pstat' = QPutStat(pstat, "prres", None)
       ELSE UNCHANGED <<prres_queue, pstat>>
    /\ tl_thread' = "done"
    /\ UNCHANGED <<ready, error, procPc, ts_thread, frame_queue, ts2tl_queue,
                   tsres_queue, tlres_queue, hasPr, aiMode, auto_stop_enabled, stopBy,
                   pnreads>>
    /\ UNCHANGED othersP

\* the UI (Text.poll of the transcription pane): res_queue.get()
PUiTsGet ==
    /\ QueueBool(tsres_queue)
    /\ tsres_queue' = Tail(tsres_queue)
    /\ UNCHANGED <<ready, error, procPc, ts_thread, tl_thread, frame_queue, ts2tl_queue,
                   tlres_queue, prres_queue, hasPr, aiMode, auto_stop_enabled, stopBy,
                   pnreads, pstat>>
    /\ UNCHANGED othersP

\* the UI (Text.poll of the translation pane): res_queue.get()
PUiTlGet ==
    /\ QueueBool(tlres_queue)
    /\ tlres_queue' = Tail(tlres_queue)
    /\ UNCHANGED <<ready, error, procPc, ts_thread, tl_thread, frame_queue, ts2tl_queue,
                   tsres_queue, prres_queue, hasPr, aiMode, auto_stop_enabled, stopBy,
                   pnreads, pstat>>
    /\ UNCHANGED othersP

\* the UI (Text.poll of the proofread pane): res_queue.get()
PUiPrGet ==
    /\ hasPr
    /\ QueueBool(prres_queue)
    /\ prres_queue' = Tail(prres_queue)
    /\ UNCHANGED <<ready, error, procPc, ts_thread, tl_thread, frame_queue, ts2tl_queue,
                   tsres_queue, tlres_queue, hasPr, aiMode, auto_stop_enabled, stopBy,
                   pnreads, pstat>>
    /\ UNCHANGED othersP

NextP ==
    \/ PLoad
    \/ PRead
    \/ PLoopExit
    \/ PJoinTs
    \/ PJoinTl
    \/ PUiStop
    \/ PTsGet
    \/ PTsPut1
    \/ PTsPut2
    \/ PTsFin1
    \/ PTsFin2
    \/ PTlGet
    \/ PTlFlush
    \/ PTlFin1
    \/ PTlFin2
    \/ PUiTsGet
    \/ PUiTlGet
    \/ PUiPrGet

SpecP ==
    InitP /\ [][NextP]_vars

\* every thread gets to run; what the user does is left open
SpecPLive ==
    /\ SpecP
    /\ WF_vars(PLoad)
    /\ WF_vars(PRead)
    /\ WF_vars(PLoopExit)
    /\ WF_vars(PJoinTs)
    /\ WF_vars(PJoinTl)
    /\ WF_vars(PTsGet)
    /\ WF_vars(PTsPut1)
    /\ WF_vars(PTsPut2)
    /\ WF_vars(PTsFin1)
    /\ WF_vars(PTsFin2)
    /\ WF_vars(PTlGet)
    /\ WF_vars(PTlFlush)
    /\ WF_vars(PTlFin1)
    /\ WF_vars(PTlFin2)

----------------------------------------------------------------------------
(* Properties of proc                                                      *)

PNones(q) ==
    pstat[q].nones

\* proc has ended: both threads terminated, ready[0] is None and each of
\* the four queues of the pipeline has been given exactly one None
PFinished ==
    /\ procPc = "done"
    /\ ready = "None"
    /\ ts_thread = "done"
    /\ tl_thread = "done"
    /\ \A q \in {"frame", "ts2tl", "tsres", "tlres"} : PNones(q) = 1

\* a read, the set-up or the oracle has raised
PRaised ==
    error # "none" \/ ts_thread = "dead"

\* None reaches the frame queue first, then the TS->TL and TS result
\* queues, then the TL result queue
C12_StrictOrder ==
    /\ PNones("ts2tl") > 0 \/ PNones("tsres") > 0 => PNones("frame") > 0
    /\ PNones("tlres") > 0 => PNones("ts2tl") > 0 /\ PNones("tsres") > 0

C12_Order ==
    /\ PNones("ts2tl") > 0 => PNones("frame") > 0
    /\ PNones("tsres") > 0 => PNones("ts2tl") > 0
    /\ (PNones("tlres") > 0 /\ stopBy # "auto") => PNones("ts2tl") > 0

C14_ErrorStillPostsNone ==
    /\ [](procPc = "done" /\ error = "read" =>
            /\ \A q \in {"frame", "ts2tl", "tsres", "tlres"} : PNones(q) >= 1
            /\ ts_thread \in {"done", "dead"}
            /\ tl_thread = "done")
    /\ (error = "read" \/ ts_thread = "dead") ~>
           (/\ \A q \in {"frame", "ts2tl", "tsres", "tlres"} : PNones(q) >= 1
            /\ ts_thread \in {"done", "dead"}
            /\ tl_thread = "done"
            /\ ready = "None")

\* C16: in a session that was given a proofread queue, tl_proc ends having
\* put exactly one None on the proofread queue and one on the TL result
\* queue, whatever the proofread queue held at that moment.
C16_ProofreadQueueGetsNone ==
    (hasPr /\ tl_thread = "done") => PNones("prres") = 1 /\ PNones("tlres") = 1

----------------------------------------------------------------------------
(* The translation stage in HTTP mode: tl_proc's Google branch             *)
(* (processing.py 345-367 with translate, 26-35) and the engine's          *)
(* AutoTranslationProcessor.update (interfaces.py 105-118, with            *)
(* GoogleTranslationService.translate).  Text is a string over a letter    *)
(* and a sentence terminator; the provider answers with a split of the     *)
(* text into spans, each with its translation.                             *)

Letter ==
    1

Period ==
    2

\* "Translation service is unavailable."
Unavailable ==
    <<77>>

\* "Target language is not specified."
NoTarget ==
    <<78>>

\* the provider's translation of a span
Tr(span) ==
    [i \in 1..Len(span) |-> span[i] + 10]

\* the spans of text from position from on, cut after each position in cuts
RECURSIVE SpansFrom(_, _, _)
SpansFrom(text, from, cuts) ==
    IF from > Len(text) THEN <<>>
    ELSE LET later == {c \in cuts : c >= from}
             nxt == IF later = {} THEN Len(text)
                    ELSE CHOOSE c \in later : \A d \in later : c <= d
         IN  <<SubSeq(text, from, nxt)>> \o SpansFrom(text, nxt + 1, cuts)

\* [(s, t) for t, s, *infos in ans]
Answer(spans) ==
    [i \in 1..Len(spans) |-> <<spans[i], Tr(spans[i])>>]

SentenceCuts(text) ==
    {i \in 1..(Len(text) - 1) : text[i] = Period}

\* the provider's split into sentences
SentenceAnswer(text) ==
    Answer(SpansFrom(text, 1, SentenceCuts(text)))

\* what the provider may answer to text: a split into spans, or nothing
\* (.json()[0] is null)
Provider(text) ==
    {Answer(SpansFrom(text, 1, c)) :
        c \in {d \in SUBSET (1..(Len(text) - 1)) : Cardinality(d) <= MaxCuts}}
    \cup {SentenceAnswer(text)} \cup {<<>>}

\* an except clause that returns no span at all
FailureReturnsNothing(text) ==
    <<>>

\* the except clause of translate
Failure(text) ==
    << <<text, Unavailable>> >>

\* the lists translate(text) may return
Translate(impl, target, text) ==
    IF ~target
    THEN (IF impl = "proc" THEN {<<>>} ELSE {<< <<text, NoTarget>> >>})
    ELSE Provider(text) \cup {Failure(text)}

\* the lists translate may return for the draft: the sentences, or a failure
TranslateDraft(impl, target, text) ==
    IF ~target
    THEN Translate(impl, target, text)
    ELSE {SentenceAnswer(text), Failure(text)}

RECURSIVE JoinSources(_)
JoinSources(snt) ==
    IF snt = <<>> THEN <<>> ELSE Head(snt)[1] \o JoinSources(Tail(snt))

\* "".join(t for s, t in snt)
RECURSIVE JoinTargets(_)
JoinTargets(snt) ==
    IF snt = <<>> THEN <<>> ELSE Head(snt)[2] \o JoinTargets(Tail(snt))

Front(snt) ==
    SubSeq(snt, 1, Len(snt) - 1)

\* a split that emits every span and still keeps the last one in reserve
ReserveSplitNoPop(impl, snt) ==
    IF snt = <<>> THEN [emitted |-> <<>>, rsrv |-> <<>>, raised |-> impl = "auto"]
    ELSE [emitted |-> snt, rsrv |-> Last(snt)[1], raised |-> FALSE]

\* what is emitted as confirmed and what is kept in reserve, given the
\* answer for the confirmed text.  tl_proc pops the last span only when
\* there are several; AutoTranslationProcessor always pops (IndexError on
\* an empty list)
ReserveSplit(impl, snt) ==
    IF impl = "proc"
    THEN IF Len(snt) > 1 THEN [emitted |-> Front(snt), rsrv |-> Last(snt)[1], raised |-> FALSE]
         ELSE IF Len(snt) = 1 THEN [emitted |-> snt, rsrv |-> <<>>, raised |-> FALSE]
         ELSE [emitted |-> <<>>, rsrv |-> <<>>, raised |-> FALSE]
    ELSE IF snt = <<>> THEN [emitted |-> <<>>, rsrv |-> <<>>, raised |-> TRUE]
         ELSE [emitted |-> Front(snt), rsrv |-> Last(snt)[1], raised |-> FALSE]

\* the confirmed and draft source text a Pair may carry
DoneSrcs ==
    {<<>>, <<Letter>>, <<Letter, Period>>, <<Letter, Period, Letter, Period>>}

CurrSrcs ==
    {<<>>, <<Letter>>}

InitH ==
    /\ tlImpl \in {"proc", "auto"}
    /\ hasTarget \in BOOLEAN
    /\ htAutoStop \in BOOLEAN
    /\ tlImpl = "auto" => ~htAutoStop
    /\ rsrv_src = <<>>
    /\ hReceived = <<>>
    /\ hEmitted = <<>>
    /\ hWellFormed = TRUE
    /\ hSentences = TRUE
    /\ hnTaken = 0
    /\ hnPut = 0
    /\ hPc = "get"
    /\ hByNone = FALSE
    /\ hTgtOut = <<>>
    /\ hObs = <<>>
    /\ QIdle
    /\ TIdle
    /\ EIdle
    /\ PIdle
    /\ DIdle
    /\ AIdle

\* tl_proc, lines 182-185: the auto-stop test fires on the Pair just taken
HAutoStop ==
    /\ hPc = "get"
    /\ hnTaken < MaxHUpdates
    /\ tlImpl = "proc"
    /\ htAutoStop
    /\ hnTaken' = hnTaken + 1
    /\ hPc' = "done"
    /\ UNCHANGED <<tlImpl, hasTarget, htAutoStop, rsrv_src, hReceived, hEmitted, hWellFormed,
                   hSentences, hnPut, hByNone, hTgtOut, hObs>>
    /\ UNCHANGED othersH

\* one Pair is taken and translated: tl_proc lines 346-367, or
\* AutoTranslationProcessor.update followed by transl_result_queue.put
HUpdate ==
    /\ hPc = "get"
    /\ hnTaken < MaxHUpdates
    /\ \E done_src \in DoneSrcs, curr_src \in CurrSrcs :
         LET needDone == done_src # <<>> \/ rsrv_src # <<>>
             text == rsrv_src \o done_src
         IN  \E done_snt \in (IF needDone THEN Translate(tlImpl, hasTarget, text) ELSE {<<>>}) :
               LET split == IF needDone THEN ReserveSplit(tlImpl, done_snt)
                            ELSE [emitted |-> <<>>, rsrv |-> rsrv_src, raised |-> FALSE]
                   done_tgt == JoinTargets(split.emitted)
                   ctext == split.rsrv \o curr_src
               IN  /\ hnTaken' = hnTaken + 1
                   /\ hReceived' = hReceived \o done_src
                   /\ hWellFormed' = (hWellFormed /\ (needDone => JoinSources(done_snt) = text))
                   /\ hSentences' = (hSentences /\ (needDone => done_snt = SentenceAnswer(text)))
                   /\ IF split.raised
                      THEN /\ hPc' = "dead"
                           /\ hObs' = [done_failed |-> FALSE, curr_failed |-> FALSE,
                                       done_empty |-> TRUE, raised |-> TRUE,
                                       done_tgt |-> <<>>, curr_tgt |-> <<>>]
                           /\ UNCHANGED <<rsrv_src, hEmitted, hnPut, hTgtOut>>
                      ELSE \E curr_snt \in TranslateDraft(tlImpl, hasTarget, ctext) :
                             /\ rsrv_src' = split.rsrv
                             /\ hEmitted' = hEmitted \o JoinSources(split.emitted)
                             /\ hTgtOut' = hTgtOut \o done_tgt
                             /\ hnPut' = hnPut + 1
                             /\ hObs' = [done_failed |-> needDone /\ done_snt = Failure(text),
                                         curr_failed |-> curr_snt = Failure(ctext),
                                         done_empty |-> needDone /\ done_snt = <<>>,
                                         raised |-> FALSE,
                                         done_tgt |-> done_tgt,
                                         curr_tgt |-> JoinTargets(curr_snt)]
                             /\ UNCHANGED hPc
    /\ UNCHANGED <<tlImpl, hasTarget, htAutoStop, hByNone>>
    /\ UNCHANGED othersH

\* the stage takes the None that ends the stream
HEnd ==
    /\ hPc = "get"
    /\ hPc' = "done"
    /\ hByNone' = TRUE
    /\ UNCHANGED <<tlImpl, hasTarget, htAutoStop, rsrv_src, hReceived, hEmitted, hWellFormed,
                   hSentences, hnTaken, hnPut, hTgtOut, hObs>>
    /\ UNCHANGED othersH

NextH ==
    \/ HAutoStop
    \/ HUpdate
    \/ HEnd

SpecH ==
    InitH /\ [][NextH]_vars

----------------------------------------------------------------------------
(* Properties of the translation stage in HTTP mode                        *)

\* C18: provided every list translate returned for confirmed text spans
\* the text that was sent, after every update the source spans whose
\* targets were emitted as confirmed, followed by the reserve, are the
\* confirmed source text received so far (nothing skipped, nothing emitted
\* twice); with the provider splitting into sentences, the confirmed output
\* is the translation of exactly those spans.
C18_ReserveAccounting ==
    /\ hWellFormed => hEmitted \o rsrv_src = hReceived
    /\ hSentences => hTgtOut = Tr(hEmitted)

\* two updates went through, a sentence was emitted as confirmed and an
\* unfinished one is held in reserve
C18_Witness ==
    /\ hWellFormed
    /\ hasTarget
    /\ hnPut >= 2
    /\ hEmitted # <<>>
    /\ rsrv_src # <<>>
    /\ Last(rsrv_src) = Letter
    /\ Last(hEmitted) = Period

\* C19: when the confirmed text of the stream ends in a terminated
\* sentence (the provider splitting into sentences), the reserve is empty
\* when the stage receives the None that ends the stream.
C19_ReserveEmptyAtEnd ==
    (/\ hPc = "done"
     /\ hByNone
     /\ hasTarget
     /\ hSentences
     /\ hReceived # <<>>
     /\ Last(hReceived) = Period)
    => rsrv_src = <<>>

\* the target of a failed call is the error marker
FailedCallsShowMarker ==
    hObs # <<>> =>
        /\ hObs.done_failed => hObs.done_tgt = Unavailable
        /\ hObs.curr_failed => hObs.curr_tgt = Unavailable

C30_EmptyAnswerIsHarmless ==
    (hObs # <<>> /\ hObs.done_empty) =>
        /\ ~hObs.raised
        /\ hPc # "dead"
        /\ hObs.done_tgt = <<>>
        /\ rsrv_src = <<>>

----------------------------------------------------------------------------
(* The prompt memory of the transcription stage.                           *)

\* an update has just completed: the oracle answered and the Pair was made
UpdateStep ==
    tsPc = "transcribe" /\ tsPc' = "get"

\* C34: the prompt memory never holds more than memory entries; after an
\* update that confirms k segments its last min(k, memory) entries are
\* those segments' texts in order, the entries kept from before are the
\* newest ones (the initial prompt goes first), and the oracle was given the
\* concatenation of the entries held when it was called.
C34_PromptMemory ==
    /\ [](Len(prompts) <= memory)
    /\ [][UpdateStep =>
            LET k == tsObs'.i
                m == Min(k, memory)
                n == Len(prompts')
                kept == n - m
            IN  /\ tsObs'.initial_prompt = JoinTexts(prompts)
                /\ n = Min(memory, Len(prompts) + k)
                /\ \A j \in 1..m : prompts'[kept + j] = tsObs'.segs[k - m + j].text
                /\ \A j \in 1..kept : prompts'[j] = prompts[Len(prompts) - kept + j]]_vars

\* with memory 2, an update that confirmed two segments pushed the initial
\* prompt out, and the oracle of the next update was given the two texts
C34_Witness ==
    /\ memory = 2
    /\ nupd >= 2
    /\ tsObs # <<>>
    /\ tsObs.initial_prompt = SegText(1) \o SegText(2)
    /\ tsObs.i = 1
    /\ prompts = <<SegText(2), SegText(1)>>

----------------------------------------------------------------------------
(* ParagraphDetector on its own: a detector is constructed and             *)
(* process_segments is called on successive batches of a stream of         *)
(* segments.  Durations are in tenths of a second in the scenarios S3 and  *)
(* S4, which use the constructor's defaults, and in ticks in the free one. *)

\* the constructor's defaults, durations in tenths of a second
DefaultParams ==
    [min_pause |-> 8, max_chars |-> 500, max_words |-> 100,
     window_size |-> 30, warmup_count |-> 5, warmup_threshold |-> 20]

\* the parameters of the free scenario
FreeParams ==
    {ParaParams, [ParaParams EXCEPT !.warmup_count = ParaWarmupCount + 1]}

FreeTexts ==
    {<<Letter>>, <<Letter, Space, Letter>>}

\* the gap between a segment's start and the end of the one before
\* (negative: the segments overlap)
FreeGaps ==
    (0 - 1)..(ParaWarmupThreshold + 1)

\* the streams of n segments that start at time t: each lasts one tick
RECURSIVE FreeStreams(_, _)
FreeStreams(n, t) ==
    IF n = 0 THEN {<<>>}
    ELSE {<<[text |-> x, start |-> t + g, end |-> t + g + 1]>> \o rest :
            x \in FreeTexts, g \in FreeGaps, rest \in FreeStreams(n - 1, t + 2)}

\* "A." "B." "C." "D."
S3Texts ==
    << <<65, 46>>, <<66, 46>>, <<67, 46>>, <<68, 46>> >>

S3Ends ==
    <<10, 20, 25, 85>>

\* the start times S3 leaves open: only the last segment follows a pause
\* above 2.0 s
S3Starts ==
    {<<a, b, c, d>> : a \in {0, 5, 10}, b \in {10, 15, 20}, c \in {20, 25},
                      d \in {46, 60, 85}}

S3Streams ==
    {[i \in 1..4 |-> [text |-> S3Texts[i], start |-> st[i], end |-> S3Ends[i]]] :
        st \in S3Starts}

\* 60 characters in w words
S4Text(w) ==
    [i \in 1..60 |-> IF i % (60 \div w) = 0 THEN Space ELSE Letter]

\* 10 segments of 60 characters, each lasting dur, with gaps of 0.1 s
S4Stream(w, dur) ==
    [i \in 1..10 |-> [text |-> S4Text(w),
                      start |-> (i - 1) * (dur + 1),
                      end |-> (i - 1) * (dur + 1) + dur]]

S4Streams ==
    {S4Stream(w, dur) : w \in {1, 12, 20}, dur \in {1, 10}}

\* a detector with a short warmup and a short window, for streams long
\* enough to leave the warmup and to fill the window
WindowParams ==
    [min_pause |-> 2, max_chars |-> 500, max_words |-> 100,
     window_size |-> 4, warmup_count |-> 3, warmup_threshold |-> 6]

WindowGaps ==
    {0, 1, 3}

\* n one-letter segments from time t on, each lasting one tick, after gaps
\* from WindowGaps
RECURSIVE WindowStreams(_, _)
WindowStreams(n, t) ==
    IF n = 0 THEN {<<>>}
    ELSE UNION {{<<[text |-> <<Letter>>, start |-> t + g, end |-> t + g + 1]>> \o rest :
                    rest \in WindowStreams(n - 1, t + g + 1)} : g \in WindowGaps}

\* detectors whose hard caps short texts reach: the second one reaches the
\* character cap before the word cap
CapParams ==
    {ParaParams, [ParaParams EXCEPT !.max_words = ParaMaxWords + 1]}

\* "", "a", "a a" and "a a a": the last one is past the caps on its own
CapTexts ==
    {<<>>, <<Letter>>, <<Letter, Space, Letter>>,
     <<Letter, Space, Letter, Space, Letter>>}

\* no pause, or a pause the warmup rule breaks on
CapGaps ==
    {0, ParaWarmupThreshold + 1}

\* n segments from time t on, each lasting one tick
RECURSIVE CapStreams(_, _)
CapStreams(n, t) ==
    IF n = 0 THEN {<<>>}
    ELSE UNION {{<<[text |-> x, start |-> t + g, end |-> t + g + 1]>> \o rest :
                    x \in CapTexts, rest \in CapStreams(n - 1, t + g + 1)} :
                g \in CapGaps}

InitD ==
    /\ dScen \in {"free", "S3", "S4", "window", "caps"}
    /\ dParams \in (IF dScen = "free" THEN FreeParams
                    ELSE IF dScen = "window" THEN {WindowParams}
                    ELSE IF dScen = "caps" THEN CapParams
                    ELSE {DefaultParams})
    /\ dSegs \in (IF dScen = "free" THEN FreeStreams(MaxDSegs, 0)
                  ELSE IF dScen = "caps"
                  THEN {st \in CapStreams(MaxDSegs, 0) : st[1].start = 0}
                  ELSE IF dScen = "S3" THEN S3Streams
                  ELSE IF dScen = "S4" THEN S4Streams
                  ELSE {<<[text |-> <<Letter>>, start |-> 0, end |-> 1]>> \o rest :
                           rest \in WindowStreams(5, 1)})
    /\ dDet = NewDetector
    /\ dNext = 1
    /\ dCalls = 0
    /\ dBatch = <<>>
    /\ dOffset = 0
    /\ dRet = <<>>
    /\ dOut = <<>>
    /\ QIdle
    /\ TIdle
    /\ EIdle
    /\ PIdle
    /\ HIdle
    /\ AIdle

\* the time_offset of a call: the start of the audio window the segments
\* are relative to
DOffsets ==
    {0} \cup (IF dNext <= Len(dSegs) THEN {dSegs[dNext].start} ELSE {})

\* segment times as the transcriber reports them, relative to time_offset
Relative(segs, time_offset) ==
    [i \in 1..Len(segs) |-> [text |-> segs[i].text,
                             start |-> segs[i].start - time_offset,
                             end |-> segs[i].end - time_offset]]

\* process_segments is called with the next k segments of the stream
DCall ==
    /\ dCalls < MaxDCalls
    /\ \E k \in 0..(Len(dSegs) - dNext + 1), time_offset \in DOffsets :
         LET segments == Relative(SubSeq(dSegs, dNext, dNext + k - 1), time_offset)
             r == ProcessSegments(dParams, dDet, segments, time_offset)
         IN  /\ dBatch' = segments
             /\ dOffset' = time_offset
             /\ dDet' = r.d
             /\ dRet' = r.out
             /\ dOut' = dOut \o r.out
             /\ dNext' = dNext + k
    /\ dCalls' = dCalls + 1
    /\ UNCHANGED <<dScen, dParams, dSegs>>
    /\ UNCHANGED othersD

NextD ==
    DCall

SpecD ==
    InitD /\ [][NextD]_vars

----------------------------------------------------------------------------
(* Properties of the paragraph detector                                    *)

\* C27: process_segments called with an empty segment list returns the
\* empty string and leaves pause_history, current_para_chars,
\* current_para_words and last_absolute_end unchanged, whatever the state
\* of the detector.
C27_EmptyBatchChangesNothing ==
    [][(dCalls' # dCalls /\ dBatch' = <<>>) => (dRet' = <<>> /\ dDet' = dDet)]_vars

\* an empty call was made on a detector that has a pause in its history
\* and a paragraph under way
C27_Witness ==
    /\ dCalls >= 2
    /\ dBatch = <<>>
    /\ dRet = <<>>
    /\ dDet.pause_history # <<>>
    /\ dDet.current_para_chars > 0
    /\ ~dDet.last_absolute_end.none

\* the hard cap is hit by a segment with this text
HardCapHit(p, d, text) ==
    /\ d.current_para_chars > 0
    /\ \/ d.current_para_chars + Len(text) > p.max_chars
       \/ d.current_para_words + WordCount(text) > p.max_words

\* the pause of a segment (absolute start abs_start) from the end of the
\* one before is one the warmup rule breaks on
WarmupBreak(p, d, abs_start) ==
    /\ ~d.last_absolute_end.none
    /\ abs_start - d.last_absolute_end.val >= p.min_pause
    /\ abs_start - d.last_absolute_end.val > p.warmup_threshold

\* C28: while the pause history, counting the current pause, holds fewer
\* than warmup_count entries and no hard cap is hit, a paragraph break is
\* inserted before a segment exactly when its pause from the previous
\* segment's absolute end is at least min_pause and strictly greater than
\* warmup_threshold (stated for the calls that pass one segment); and for
\* S3, segments with absolute end times 1.0, 2.0, 2.5, 8.5 and texts A. B.
\* C. D., the output is A.B.C. then a paragraph break then D.
C28_WarmupRule ==
    /\ [][(/\ dCalls' # dCalls
           /\ Len(dBatch') = 1
           /\ Len(dDet'.pause_history) < dParams.warmup_count
           /\ ~HardCapHit(dParams, dDet, dBatch'[1].text))
          => dRet' = (IF WarmupBreak(dParams, dDet, dBatch'[1].start + dOffset')
                      THEN ParaBreak ELSE <<>>) \o dBatch'[1].text]_vars
    /\ []((dScen = "S3" /\ dNext > Len(dSegs))
            => dOut = <<65, 46, 66, 46, 67, 46, NL, NL, 68, 46>>)

\* S3 has been passed through, its last segment in a call of its own that
\* returned the break and D., with three pauses in the history
C28_Witness ==
    /\ dScen = "S3"
    /\ dNext > Len(dSegs)
    /\ Len(dBatch) = 1
    /\ Len(dDet.pause_history) = 3
    /\ dRet = ParaBreak \o <<68, 46>>

\* the texts of segments from..to of the stream, concatenated
RECURSIVE StreamText(_, _)
StreamText(from, to) ==
    IF from > to THEN <<>> ELSE dSegs[from].text \o StreamText(from + 1, to)

\* C29 as stated: for 10 segments of 60 characters with 0.1 s gaps and
\* max_chars = 500, exactly one paragraph break is inserted, after the 9th
\* segment.
C29_BreakAfterNinth ==
    (dScen = "S4" /\ dNext > Len(dSegs))
        => dOut = StreamText(1, 9) \o ParaBreak \o StreamText(10, 10)

\* C29 (amended): for 10 segments of 60 characters with 0.1 s gaps and
\* max_chars = 500, the word cap not being reached (at most 12 words per
\* segment), exactly one paragraph break is inserted, before the 9th
\* segment: the segment that would push the paragraph past 500 characters
\* starts the new paragraph.
C29_BreakBeforeNinth ==
    (dScen = "S4" /\ dNext > Len(dSegs) /\ WordCount(dSegs[1].text) <= 12)
        => dOut = StreamText(1, 8) \o ParaBreak \o StreamText(9, 10)

\* the ten segments, of 12 words each, have been passed in several calls
C29_Witness ==
    /\ dScen = "S4"
    /\ dNext > Len(dSegs)
    /\ dCalls >= 2
    /\ WordCount(dSegs[1].text) = 12
    /\ dDet.current_para_chars = 120

\* a call passed one segment to a detector that has seen a segment before
OneSegmentCall ==
    /\ dCalls' # dCalls
    /\ Len(dBatch') = 1
    /\ ~dDet.last_absolute_end.none

\* the pause of that segment from the absolute end of the one before
CallPause ==
    dBatch'[1].start + dOffset' - dDet.last_absolute_end.val

\* pause > mean + threshold_std * std of the history hist
AboveMeanPlusStd(hist, pause) ==
    LET n == Len(hist)
        S == SumSeq(hist)
        V == n * SumSeq([i \in 1..n |-> hist[i] * hist[i]]) - S * S
    IN  /\ n * pause > S
        /\ ThresholdStdDen * ThresholdStdDen * (n * pause - S) * (n * pause - S)
               > ThresholdStdNum * ThresholdStdNum * V

\* C32: a break that no hard cap causes is inserted only for a pause that is
\* at least min_pause and strictly greater than the current threshold:
\* warmup_threshold while the history holds fewer than warmup_count
\* entries, and afterwards the larger of min_pause and mean +
\* threshold_std * std, which is never below min_pause; for a segment that
\* breaks because of a hard cap the pause is not examined, so the history
\* stays as it is (stated for the calls that pass one segment).
C32_PauseBreakRule ==
    [][OneSegmentCall =>
          IF HardCapHit(dParams, dDet, dBatch'[1].text)
          THEN /\ dDet'.pause_history = dDet.pause_history
               /\ dRet' = ParaBreak \o dBatch'[1].text
          ELSE (dRet' = ParaBreak \o dBatch'[1].text) =>
                  /\ CallPause >= dParams.min_pause
                  /\ IF Len(dDet'.pause_history) < dParams.warmup_count
                     THEN CallPause > dParams.warmup_threshold
                     ELSE /\ CallPause > dParams.min_pause
                          /\ AboveMeanPlusStd(dDet'.pause_history, CallPause)]_vars

\* after the warmup a one-segment call broke on a pause that is below
\* warmup_threshold
C32_Witness ==
    /\ dScen = "window"
    /\ Len(dBatch) = 1
    /\ Len(dDet.pause_history) >= dParams.warmup_count
    /\ dRet = ParaBreak \o dBatch[1].text
    /\ dDet.pause_history[Len(dDet.pause_history)] = 3
    /\ dDet.current_para_chars = 1

\* the gap between segment i of the stream and the one before
StreamGap(i) ==
    dSegs[i].start - dSegs[i - 1].end

\* C33: after any sequence of process_segments calls pause_history holds at
\* most window_size entries and every entry is strictly positive; when a
\* pause is recorded into a full history, the oldest entry is the one
\* discarded (stated for the calls that pass one segment).
C33_PauseHistoryBounded ==
    /\ [](dDet # <<>> =>
            /\ Len(dDet.pause_history) <= dParams.window_size
            /\ \A i \in 1..Len(dDet.pause_history) : dDet.pause_history[i] > 0)
    /\ [][(/\ OneSegmentCall
           /\ ~HardCapHit(dParams, dDet, dBatch'[1].text)
           /\ CallPause > 0
           /\ Len(dDet.pause_history) = dParams.window_size)
          => dDet'.pause_history = Tail(dDet.pause_history) \o <<CallPause>>]_vars

\* six segments with five positive pauses went through a detector whose
\* window is 4: the history holds the last four pauses
C33_Witness ==
    /\ dScen = "window"
    /\ dNext = 7
    /\ \A i \in 2..6 : StreamGap(i) > 0
    /\ StreamGap(2) # StreamGap(6)
    /\ dDet.pause_history = [i \in 1..4 |-> StreamGap(i + 2)]

----------------------------------------------------------------------------
(* The translation stage of proc: tl_proc (processing.py 158-419) with its *)
(* LLM branch, the auto-stop test, the exit processing and the Nones, and  *)
(* ai_translate (89-107).  A text is a string over letters, the space and  *)
(* the newline; time.time() is the clock now, which every statement of one *)
(* loop pass reads as the same instant.                                    *)

\* '\n\n' in text
HasBreak(text) ==
    \E i \in 1..(Len(text) - 1) : text[i] = NL /\ text[i + 1] = NL

\* a split at the first break only
SplitAtFirstBreak(text) ==
    LET at == {i \in 1..(Len(text) - 1) : text[i] = NL /\ text[i + 1] = NL}
    IN  IF at = {} THEN <<text>>
        ELSE LET i == CHOOSE j \in at : \A k \in at : j <= k
             IN  <<SubSeq(text, 1, i - 1), SubSeq(text, i + 2, Len(text))>>

\* text.split('\n\n')
RECURSIVE SplitBreaks(_)
SplitBreaks(text) ==
    LET at == {i \in 1..(Len(text) - 1) : text[i] = NL /\ text[i + 1] = NL}
    IN  IF at = {} THEN <<text>>
        ELSE LET i == CHOOSE j \in at : \A k \in at : j <= k
             IN  <<SubSeq(text, 1, i - 1)>> \o SplitBreaks(SubSeq(text, i + 2, Len(text)))

\* '\n\n'.join(parts)
RECURSIVE JoinBreaks(_)
JoinBreaks(parts) ==
    IF parts = <<>> THEN <<>>
    ELSE IF Len(parts) = 1 THEN parts[1]
    ELSE parts[1] \o ParaBreak \o JoinBreaks(Tail(parts))

\* text.strip()
Strip(text) ==
    LET solid == {i \in 1..Len(text) : text[i] \notin {Space, NL}}
    IN  IF solid = {} THEN <<>>
        ELSE SubSeq(text, CHOOSE i \in solid : \A k \in solid : i <= k,
                          CHOOSE j \in solid : \A k \in solid : j >= k)

\* what a successful call of the processor returns for text: the letters
\* proofread (+20), translated (+10) or both (+30), stripped
LlmResult(mode, text) ==
    LET shift == IF mode = "proofread" THEN 20
                 ELSE IF mode = "translate" THEN 10 ELSE 30
    IN  Strip([i \in 1..Len(text) |->
                  IF text[i] \in {Space, NL} THEN text[i] ELSE text[i] + shift])

\* how a call of ai_processor.process may end: with a text, with an empty
\* text, with (text, error) after the retries failed, or by raising
Outcomes ==
    {"ok", "empty", "error", "raise"}

Failures ==
    {"error", "raise"}

\* the outcomes to consider for a call that is made, or not made
CallOutcomes(made) ==
    IF made THEN Outcomes ELSE {"ok"}

\* an ai_translate whose result is empty when the call fails
AiTranslateDropsFailed(text, mode, outcome) ==
    IF Strip(text) = <<>> THEN [result |-> <<>>, error |-> FALSE, called |-> FALSE]
    ELSE IF outcome = "ok"
    THEN [result |-> LlmResult(mode, text), error |-> FALSE, called |-> TRUE]
    ELSE [result |-> <<>>, error |-> outcome \in Failures, called |-> TRUE]

\* ai_translate(text, ai_processor) for a processor of the given mode whose
\* call ends with outcome: the result, whether an error message comes with
\* it, and whether the processor was called at all
AiTranslate(text, mode, outcome) ==
    IF Strip(text) = <<>> THEN [result |-> <<>>, error |-> FALSE, called |-> FALSE]
    ELSE IF outcome = "ok"
    THEN [result |-> LlmResult(mode, text), error |-> FALSE, called |-> TRUE]
    ELSE IF outcome = "empty"
    THEN [result |-> <<>>, error |-> FALSE, called |-> TRUE]
    ELSE [result |-> text, error |-> TRUE, called |-> TRUE]

\* the two-call path is taken
TwoCalls(mode, has_pr) ==
    has_pr /\ mode = "proofread_translate"

\* an in-stream dispatch whose translate call is given to_process instead of
\* the proofread result
StreamDispatchTranslatesSource(mode, has_pr, to_process, has_paragraph_break, o1, o2) ==
    LET separator == IF has_paragraph_break THEN ParaBreak ELSE <<Space>>
    IN  IF TwoCalls(mode, has_pr)
        THEN LET pr == AiTranslate(to_process, "proofread", o1)
                 tr == AiTranslate(to_process, "translate", o2)
             IN  [pr |-> IF pr.result # <<>>
                         THEN <<Some(Pair(pr.result \o ParaBreak, <<>>))>> ELSE <<>>,
                  tl |-> IF tr.result # <<>>
                         THEN <<Some(Pair(tr.result \o separator, <<>>))>> ELSE <<>>,
                  outcomes |-> (IF pr.called THEN <<o1>> ELSE <<>>)
                               \o (IF tr.called THEN <<o2>> ELSE <<>>),
                  results |-> <<pr.result, tr.result>>]
        ELSE LET one == AiTranslate(to_process, mode, o1)
                 item == <<Some(Pair(one.result \o separator, <<>>))>>
             IN  [pr |-> IF mode = "proofread" /\ has_pr THEN item ELSE <<>>,
                  tl |-> IF mode = "proofread" /\ has_pr THEN <<>> ELSE item,
                  outcomes |-> IF one.called THEN <<o1>> ELSE <<>>,
                  results |-> <<one.result>>]

\* the in-stream dispatch of to_process (lines 256-344): the Pairs put on
\* each queue and the outcomes of the calls made
StreamDispatch(mode, has_pr, to_process, has_paragraph_break, o1, o2) ==
    LET separator == IF has_paragraph_break THEN ParaBreak ELSE <<Space>>
    IN  IF TwoCalls(mode, has_pr)
        THEN LET pr == AiTranslate(to_process, "proofread", o1)
                 tr == AiTranslate(pr.result, "translate", o2)
             IN  [pr |-> IF pr.result # <<>>
                         THEN <<Some(Pair(pr.result \o ParaBreak, <<>>))>> ELSE <<>>,
                  tl |-> IF tr.result # <<>>
                         THEN <<Some(Pair(tr.result \o separator, <<>>))>> ELSE <<>>,
                  outcomes |-> (IF pr.called THEN <<o1>> ELSE <<>>)
                               \o (IF tr.called THEN <<o2>> ELSE <<>>),
                  results |-> <<pr.result, tr.result>>]
        ELSE LET one == AiTranslate(to_process, mode, o1)
                 item == <<Some(Pair(one.result \o separator, <<>>))>>
             IN  [pr |-> IF mode = "proofread" /\ has_pr THEN item ELSE <<>>,
                  tl |-> IF mode = "proofread" /\ has_pr THEN <<>> ELSE item,
                  outcomes |-> IF one.called THEN <<o1>> ELSE <<>>,
                  results |-> <<one.result>>]

\* the dispatch of final_text in the exit processing (lines 375-415)
ExitDispatch(mode, has_pr, final_text, o1, o2) ==
    IF TwoCalls(mode, has_pr)
    THEN LET pr == AiTranslate(final_text, "proofread", o1)
             tr == AiTranslate(pr.result, "translate", o2)
         IN  [pr |-> IF pr.result # <<>> THEN <<Some(Pair(pr.result, <<>>))>> ELSE <<>>,
              tl |-> IF tr.result # <<>> THEN <<Some(Pair(tr.result, <<>>))>> ELSE <<>>,
              outcomes |-> (IF pr.called THEN <<o1>> ELSE <<>>)
                           \o (IF tr.called THEN <<o2>> ELSE <<>>),
              results |-> <<pr.result, tr.result>>]
    ELSE LET one == AiTranslate(final_text, mode, o1)
         IN  [pr |-> <<>>,
              tl |-> <<Some(Pair(one.result, <<>>))>>,
              outcomes |-> IF one.called THEN <<o1>> ELSE <<>>,
              results |-> <<one.result>>]

\* the confirmed text a Pair may carry: the paragraph detector puts a break
\* between the texts of two segments, and no segment's text is blank
ADoneSrcs ==
    {<<>>,
     <<Letter, Space, Letter>>,
     <<Letter, Letter, Letter, Letter, Letter>>,
     ParaBreak \o <<Letter>>,
     <<Letter>> \o ParaBreak \o <<Letter, Letter>>}

\* the draft a Pair may carry
ACurrSrcs ==
    {<<>>, <<Letter>>}

AiModes3 ==
    {"translate", "proofread", "proofread_translate"}

TriggerModes ==
    {"time", "words", "manual"}

InitA ==
    /\ aMode \in {"http"} \cup AiModes3
    /\ aHasPr \in BOOLEAN
    /\ ai_trigger_mode \in TriggerModes
    /\ aMode = "http" => (~aHasPr /\ ai_trigger_mode = "time")
    /\ aAutoStop \in BOOLEAN
    /\ manual_trigger = FALSE
    /\ accumulated_done = <<>>
    /\ last_curr_src = <<>>
    /\ aRsrv = <<>>
    /\ now = 0
    /\ last_process_time = 0
    /\ last_activity_time = 0
    /\ aLastCnfm = None
    /\ aPc = "get"
    /\ aByNone = FALSE
    /\ aNUpd = 0
    /\ aPrQueued = FALSE
    /\ aOutTl = <<>>
    /\ aOutPr = <<>>
    /\ aObs = <<>>
    /\ QIdle
    /\ TIdle
    /\ EIdle
    /\ PIdle
    /\ HIdle
    /\ DIdle

\* for each of the items put, whether it is None
IsNone(items) ==
    [i \in 1..Len(items) |-> items[i].none]

\* time_threshold_reached (lines 213-218): PROCESS_INTERVAL_SECONDS is
\* infinite unless the trigger mode is "time"
TimeThresholdReached(trigger_mode, time_elapsed) ==
    /\ trigger_mode # "manual"
    /\ trigger_mode = "time"
    /\ time_elapsed >= ai_process_interval

\* a word trigger that is not switched off in manual mode
WordThresholdCountsAlways(trigger_mode, acc) ==
    WordCount(acc) >= ai_process_words

\* word_threshold_reached (lines 213-222): PROCESS_WORD_COUNT is infinite
\* unless the trigger mode is "words"
WordThresholdReached(trigger_mode, acc) ==
    /\ trigger_mode # "manual"
    /\ trigger_mode = "words"
    /\ WordCount(acc) >= ai_process_words

\* a silence trigger that is not switched off in manual mode
SilenceThresholdInManualToo(trigger_mode, silence_elapsed, acc) ==
    /\ silence_elapsed >= silence_timeout
    /\ Strip(acc) # <<>>

\* silence_threshold_reached (lines 213-226)
SilenceThresholdReached(trigger_mode, silence_elapsed, acc) ==
    /\ trigger_mode # "manual"
    /\ silence_elapsed >= silence_timeout
    /\ Strip(acc) # <<>>

\* the Pairs the stage may take next: no break before the first text of
\* the stream
ANextPairs ==
    {pr \in ADoneSrcs \X ACurrSrcs :
        (pr[1] # <<>> /\ pr[1][1] = NL) => ~aLastCnfm.none}

\* lines 182-185: the test that ends the session
AutoStopDue ==
    aAutoStop /\ now - last_activity_time >= AUTO_STOP_DURATION

\* time passes
ATick ==
    /\ now < MaxTime
    /\ aPc = "get"
    /\ now' = now + 1
    /\ UNCHANGED <<aMode, aHasPr, ai_trigger_mode, aAutoStop, manual_trigger,
                   accumulated_done, last_curr_src, aRsrv, last_process_time,
                   last_activity_time, aLastCnfm, aPc, aByNone, aNUpd, aPrQueued,
                   aOutTl, aOutPr, aObs>>
    /\ UNCHANGED othersA

\* gui.py manual_ai_trigger: the user asks for a dispatch
ASetManual ==
    /\ aPc = "get"
    /\ aMode # "http"
    /\ ~manual_trigger
    /\ manual_trigger' = TRUE
    /\ UNCHANGED <<aMode, aHasPr, ai_trigger_mode, aAutoStop,
                   accumulated_done, last_curr_src, aRsrv, now, last_process_time,
                   last_activity_time, aLastCnfm, aPc, aByNone, aNUpd, aPrQueued,
                   aOutTl, aOutPr, aObs>>
    /\ UNCHANGED othersA

\* the proofread pane takes what prres_queue holds
AUiPrGet ==
    /\ aPrQueued
    /\ aPrQueued' = FALSE
    /\ UNCHANGED <<aMode, aHasPr, ai_trigger_mode, aAutoStop, manual_trigger,
                   accumulated_done, last_curr_src, aRsrv, now, last_process_time,
                   last_activity_time, aLastCnfm, aPc, aByNone, aNUpd,
                   aOutTl, aOutPr, aObs>>
    /\ UNCHANGED othersA

\* a Pair is taken and the auto-stop test ends the loop (lines 176-185)
AAutoStop ==
    /\ aPc = "get"
    /\ aNUpd < MaxAUpdates
    /\ AutoStopDue
    /\ \E pair \in ANextPairs :
         /\ last_curr_src' = pair[2]
         /\ aObs' = [kind |-> "autostop", paragraph_only |-> FALSE,
                     done_src |-> pair[1]]
    /\ aNUpd' = aNUpd + 1
    /\ aPc' = "exit"
    /\ UNCHANGED <<aMode, aHasPr, ai_trigger_mode, aAutoStop, manual_trigger,
                   accumulated_done, aRsrv, now, last_process_time,
                   last_activity_time, aLastCnfm, aByNone, aPrQueued,
                   aOutTl, aOutPr>>
    /\ UNCHANGED othersA

\* a Pair is taken and translated by the HTTP branch (lines 345-367), the
\* provider splitting the text into sentences or failing
AUpdateHttp ==
    /\ aPc = "get"
    /\ aNUpd < MaxAUpdates
    /\ ~AutoStopDue
    /\ aMode = "http"
    /\ \E pair \in ANextPairs :
         LET done_src == pair[1]
             curr_src == pair[2]
             needDone == done_src # <<>> \/ aRsrv # <<>>
             text == aRsrv \o done_src
         IN  \E done_snt \in (IF needDone THEN TranslateDraft("proc", TRUE, text) ELSE {<<>>}) :
               LET split == IF needDone THEN ReserveSplit("proc", done_snt)
                            ELSE [emitted |-> <<>>, rsrv |-> aRsrv, raised |-> FALSE]
               IN  \E curr_snt \in TranslateDraft("proc", TRUE, split.rsrv \o curr_src) :
                     /\ last_curr_src' = curr_src
                     /\ aRsrv' = split.rsrv
                     /\ aLastCnfm' = IF done_src # <<>> THEN Some(now) ELSE aLastCnfm
                     /\ aOutTl' = Append(aOutTl, FALSE)
                     /\ aObs' = [kind |-> "http", paragraph_only |-> FALSE,
                                 tl |-> <<Some(Pair(JoinTargets(split.emitted),
                                                    JoinTargets(curr_snt)))>>]
    /\ aNUpd' = aNUpd + 1
    /\ UNCHANGED <<aMode, aHasPr, ai_trigger_mode, aAutoStop, manual_trigger,
                   accumulated_done, now, last_process_time, last_activity_time,
                   aPc, aByNone, aPrQueued, aOutPr>>
    /\ UNCHANGED othersA

\* a Pair is taken and handled by the LLM branch (lines 188-344)
AUpdateLlm ==
    /\ aPc = "get"
    /\ aNUpd < MaxAUpdates
    /\ ~AutoStopDue
    /\ aMode # "http"
    /\ \E pair \in ANextPairs :
         LET done_src == pair[1]
             curr_src == pair[2]
             acc == IF done_src # <<>> THEN accumulated_done \o done_src
                    ELSE accumulated_done
             activity == IF done_src # <<>> THEN now ELSE last_activity_time
             has_paragraph_break == HasBreak(acc)
             has_min_chars == Len(acc) >= MIN_CHARS_TO_PROCESS
             has_max_chars == Len(acc) >= MAX_CHARS_TO_ACCUMULATE
             manual_trigger_requested == manual_trigger
             time_threshold_reached ==
                 TimeThresholdReached(ai_trigger_mode, now - last_process_time)
             word_threshold_reached ==
                 WordThresholdReached(ai_trigger_mode, acc)
             silence_threshold_reached ==
                 SilenceThresholdReached(ai_trigger_mode, now - activity, acc)
             should_process ==
                 /\ acc # <<>>
                 /\ \/ has_min_chars /\ has_paragraph_break
                    \/ has_max_chars
                    \/ time_threshold_reached
                    \/ word_threshold_reached
                    \/ silence_threshold_reached
                    \/ manual_trigger_requested
             parts == SplitBreaks(acc)
             to_process == IF ~should_process THEN <<>>
                           ELSE IF has_paragraph_break THEN JoinBreaks(Front(parts))
                           ELSE acc
             rest == IF ~should_process THEN acc
                     ELSE IF has_paragraph_break THEN Last(parts)
                     ELSE <<>>
             dispatched == should_process /\ to_process # <<>>
         IN  \E o1 \in CallOutcomes(dispatched),
                o2 \in CallOutcomes(dispatched /\ TwoCalls(aMode, aHasPr)) :
             LET d == StreamDispatch(aMode, aHasPr, to_process, has_paragraph_break, o1, o2)
             IN
             /\ last_curr_src' = curr_src
             /\ accumulated_done' = rest
             /\ last_activity_time' = activity
             /\ aLastCnfm' = IF done_src # <<>> THEN Some(now) ELSE aLastCnfm
             /\ manual_trigger' = IF manual_trigger_requested /\ acc # <<>>
                                  THEN FALSE ELSE manual_trigger
             /\ last_process_time' = IF dispatched THEN now ELSE last_process_time
             /\ aOutTl' = IF dispatched THEN aOutTl \o IsNone(d.tl) ELSE aOutTl
             /\ aOutPr' = IF dispatched THEN aOutPr \o IsNone(d.pr) ELSE aOutPr
             /\ aPrQueued' = (aPrQueued \/ (dispatched /\ d.pr # <<>>))
             /\ aObs' = [kind |-> "llm",
                         done_src |-> done_src,
                         acc |-> acc,
                         flag |-> manual_trigger_requested,
                         paragraph_only |->
                             /\ (aObs # <<>> => aObs.paragraph_only)
                             /\ ~manual_trigger_requested
                             /\ ~time_threshold_reached
                             /\ ~word_threshold_reached
                             /\ ~silence_threshold_reached
                             /\ ~has_max_chars,
                         time_elapsed |-> now - last_process_time,
                         silence_elapsed |-> now - activity,
                         timed |-> time_threshold_reached,
                         worded |-> word_threshold_reached,
                         silent |-> silence_threshold_reached,
                         dispatched |-> dispatched,
                         input |-> to_process,
                         outcomes |-> IF dispatched THEN d.outcomes ELSE <<>>,
                         results |-> IF dispatched THEN d.results ELSE <<>>,
                         tl |-> IF dispatched THEN d.tl ELSE <<>>,
                         pr |-> IF dispatched THEN d.pr ELSE <<>>]
    /\ aNUpd' = aNUpd + 1
    /\ UNCHANGED <<aMode, aHasPr, ai_trigger_mode, aAutoStop, aRsrv, now, aPc, aByNone>>
    /\ UNCHANGED othersA

\* the loop takes the None that ends the stream (line 175)
AGetNone ==
    /\ aPc = "get"
    /\ aPc' = "exit"
    /\ aByNone' = TRUE
    /\ UNCHANGED <<aMode, aHasPr, ai_trigger_mode, aAutoStop, manual_trigger,
                   accumulated_done, last_curr_src, aRsrv, now, last_process_time,
                   last_activity_time, aLastCnfm, aNUpd, aPrQueued,
                   aOutTl, aOutPr, aObs>>
    /\ UNCHANGED othersA

\* the exit processing and the Nones (lines 369-419)
AExit ==
    /\ aPc = "exit"
    /\ LET final_text == IF Strip(last_curr_src) # <<>>
                           THEN accumulated_done \o last_curr_src
                           ELSE accumulated_done
             dispatched == aMode # "http" /\ final_text # <<>> /\ Strip(final_text) # <<>>
       IN  \E o1 \in CallOutcomes(dispatched),
              o2 \in CallOutcomes(dispatched /\ TwoCalls(aMode, aHasPr)) :
         LET d == ExitDispatch(aMode, aHasPr, final_text, o1, o2)
             tl == IF dispatched THEN d.tl ELSE <<>>
             pr == IF dispatched THEN d.pr ELSE <<>>
             queued == aPrQueued \/ pr # <<>>
         IN  /\ aOutTl' = aOutTl \o IsNone(tl \o <<None>>)
             /\ aOutPr' = aOutPr \o IsNone(pr \o (IF aHasPr /\ queued THEN <<None>> ELSE <<>>))
             /\ aPrQueued' = queued
             /\ aObs' = [kind |-> "exit",
                         final_text |-> final_text,
                         dispatched |-> dispatched,
                         outcomes |-> IF dispatched THEN d.outcomes ELSE <<>>,
                         results |-> IF dispatched THEN d.results ELSE <<>>,
                         tl |-> tl,
                         pr |-> pr]
    /\ aPc' = "done"
    /\ UNCHANGED <<aMode, aHasPr, ai_trigger_mode, aAutoStop, manual_trigger,
                   accumulated_done, last_curr_src, aRsrv, now, last_process_time,
                   last_activity_time, aLastCnfm, aByNone, aNUpd>>
    /\ UNCHANGED othersA

\* the LLM branch with a translate processor and one output queue, under
\* each trigger mode: the triggers
InitATrig ==
    /\ InitA
    /\ aMode = "translate"
    /\ ~aHasPr
    /\ ~aAutoStop

NextATrig ==
    \/ ATick
    \/ ASetManual
    \/ AUpdateLlm
    \/ AGetNone
    \/ AExit

SpecATrig ==
    InitATrig /\ [][NextATrig]_vars

\* every processor mode, with and without a proofread queue, in manual
\* trigger mode without auto-stop, where no statement reads the clock: the
\* dispatches and what they put
InitAOut ==
    /\ InitA
    /\ aMode # "http"
    /\ ai_trigger_mode = "manual"
    /\ ~aAutoStop

NextAOut ==
    \/ ASetManual
    \/ AUiPrGet
    \/ AUpdateLlm
    \/ AGetNone
    \/ AExit

SpecAOut ==
    InitAOut /\ [][NextAOut]_vars

\* auto-stop enabled, in HTTP mode and in LLM mode
InitAStop ==
    /\ InitA
    /\ aAutoStop
    /\ aMode \in {"http", "translate"}
    /\ ~aHasPr
    /\ ai_trigger_mode \in {"time", "manual"}

NextAStop ==
    \/ ATick
    \/ AAutoStop
    \/ AUpdateHttp
    \/ AUpdateLlm
    \/ AGetNone
    \/ AExit

SpecAStop ==
    InitAStop /\ [][NextAStop]_vars

----------------------------------------------------------------------------
(* Properties of the LLM branch.  aObs describes the latest loop pass:     *)
(* acc is accumulated_done after the pass appended the confirmed text,     *)
(* input is to_process, outcomes lists the processor calls made, and       *)
(* paragraph_only tells that in no pass so far a trigger other than the    *)
(* paragraph-break trigger was able to fire.                               *)

\* the latest pass went through the LLM branch
LlmPass ==
    aObs # <<>> /\ aObs.kind = "llm"

\* the positions at which a paragraph break starts
Breaks(text) ==
    {i \in 1..(Len(text) - 1) : text[i] = NL /\ text[i + 1] = NL}

LastBreak(text) ==
    CHOOSE i \in Breaks(text) : \A k \in Breaks(text) : i >= k

BeforeLastBreak(text) ==
    SubSeq(text, 1, LastBreak(text) - 1)

AfterLastBreak(text) ==
    SubSeq(text, LastBreak(text) + 2, Len(text))

\* in no pass so far could a trigger other than the paragraph-break
\* trigger fire: the manual flag was not set, the time, word and silence
\* thresholds were not reached and accumulated stayed under the cap
OnlyParagraphTrigger ==
    aObs.paragraph_only

\* C21: in LLM mode with only the paragraph-break trigger able to fire, no
\* LLM call is made while accumulated is shorter than MIN_CHARS_TO_PROCESS,
\* even if it contains a paragraph break; at the first update where
\* accumulated has at least that many characters and contains a paragraph
\* break, exactly one LLM call is made, whose input is the part of
\* accumulated before its last paragraph break, and accumulated keeps
\* exactly the part after that break.
C21_ParagraphTrigger ==
    (LlmPass /\ OnlyParagraphTrigger) =>
        /\ Len(aObs.acc) < MIN_CHARS_TO_PROCESS =>
              /\ ~aObs.dispatched
              /\ aObs.outcomes = <<>>
              /\ accumulated_done = aObs.acc
        /\ (Len(aObs.acc) >= MIN_CHARS_TO_PROCESS /\ Breaks(aObs.acc) # {}) =>
              /\ aObs.dispatched
              /\ Len(aObs.outcomes) = 1
              /\ aObs.input = BeforeLastBreak(aObs.acc)
              /\ accumulated_done = AfterLastBreak(aObs.acc)

\* the paragraph-break trigger alone fired on a text with two breaks: the
\* call got the two paragraphs before the last break
C21_Witness ==
    /\ LlmPass
    /\ OnlyParagraphTrigger
    /\ aObs.dispatched
    /\ Cardinality(Breaks(aObs.acc)) = 2
    /\ Breaks(aObs.input) # {}
    /\ accumulated_done # <<>>
    /\ aNUpd >= 2

C23_ManualModeTriggers ==
    (LlmPass /\ ai_trigger_mode = "manual" /\ aObs.dispatched) =>
        /\ \/ aObs.flag
           \/ Len(aObs.acc) >= MIN_CHARS_TO_PROCESS /\ Breaks(aObs.acc) # {}
           \/ Len(aObs.acc) >= MAX_CHARS_TO_ACCUMULATE
        /\ ~aObs.timed
        /\ ~aObs.worded
        /\ ~aObs.silent

\* in manual mode the flag caused the dispatch of a short text without a
\* paragraph break, after the interval and the silence timeout had elapsed
C23_Witness ==
    /\ LlmPass
    /\ ai_trigger_mode = "manual"
    /\ aObs.dispatched
    /\ aObs.flag
    /\ ~manual_trigger
    /\ Len(aObs.acc) < MIN_CHARS_TO_PROCESS
    /\ Breaks(aObs.acc) = {}
    /\ aObs.time_elapsed >= ai_process_interval

----------------------------------------------------------------------------
(* The end of the stream in the LLM branch.                                *)

\* the stage has taken the None that ends the stream and has returned
StreamEnded ==
    aPc = "done" /\ aByNone /\ aMode # "http"

\* the queues the in-stream dispatch puts the result of a dispatch on
\* (lines 273, 318-323, 340-344)
RoutedAsInStream(mode, has_pr, results, tl, pr) ==
    IF TwoCalls(mode, has_pr)
    THEN /\ (pr # <<>>) = (results[1] # <<>>)
         /\ (tl # <<>>) = (results[2] # <<>>)
    ELSE IF mode = "proofread" /\ has_pr
    THEN Len(pr) = 1 /\ tl = <<>>
    ELSE Len(tl) = 1 /\ pr = <<>>

\* C24: when the stream ends in LLM mode, the remaining accumulated text
\* plus the latest draft is dispatched exactly once, its result goes to the
\* queue(s) the in-stream dispatch uses for the mode, and None is then the
\* last element put on the translation queue and, if there is one, on the
\* proofread queue.
C24_ExitFlushRoutedAndClosed ==
    StreamEnded =>
        /\ aObs.kind = "exit"
        /\ aObs.final_text = accumulated_done \o
               (IF Strip(last_curr_src) # <<>> THEN last_curr_src ELSE <<>>)
        /\ aObs.dispatched = (Strip(aObs.final_text) # <<>>)
        /\ aObs.dispatched =>
               /\ Len(aObs.outcomes) = IF TwoCalls(aMode, aHasPr)
                                         /\ Strip(aObs.results[1]) # <<>>
                                       THEN 2 ELSE 1
               /\ RoutedAsInStream(aMode, aHasPr, aObs.results, aObs.tl, aObs.pr)
        /\ aOutTl # <<>> /\ aOutTl[Len(aOutTl)]
        /\ aHasPr => (aOutPr # <<>> /\ aOutPr[Len(aOutPr)])

----------------------------------------------------------------------------
(* A failing processor call.                                               *)

\* the latest loop pass made processor call i and that call failed
FailedCall(i) ==
    /\ LlmPass
    /\ aObs.dispatched
    /\ i <= Len(aObs.outcomes)
    /\ aObs.outcomes[i] \in Failures

\* the text call i of the latest pass was given: to_process, or in the
\* two-call branch the first call's result for the second (lines 289, 303)
CallInput(i) ==
    IF i = 1 THEN aObs.input ELSE aObs.results[1]

\* what the latest pass put for call i (lines 318-323, 339-344)
EmittedFor(i) ==
    IF TwoCalls(aMode, aHasPr)
    THEN (IF i = 1 THEN aObs.pr ELSE aObs.tl)
    ELSE aObs.pr \o aObs.tl

\* the separator appended to the result of call i (lines 311-312, 335)
SeparatorFor(i) ==
    IF (TwoCalls(aMode, aHasPr) /\ i = 1) \/ HasBreak(aObs.acc)
    THEN ParaBreak ELSE <<Space>>

\* the stage is back at its get and has put no None
StageGoesOn ==
    /\ aPc = "get"
    /\ \A k \in 1..Len(aOutTl) : ~aOutTl[k]
    /\ \A k \in 1..Len(aOutPr) : ~aOutPr[k]

\* a loop pass in which a processor call failed
FailedPass ==
    FailedCall(1) \/ FailedCall(2)

\* C25 as stated: when a processor call fails in a loop pass, the stage
\* neither ends nor puts None, goes on to the next input, and the Pair it
\* puts carries an error marker, not the text the call was given, in place
\* of the failed output.
C25_FailureShowsMarker ==
    [][(aNUpd' # aNUpd /\ FailedPass') =>
          (/\ StageGoesOn'
           /\ \A i \in 1..2 : FailedCall(i)' =>
                  /\ Len(EmittedFor(i)') = 1
                  /\ EmittedFor(i)'[1].val.cnfm # CallInput(i)' \o SeparatorFor(i)')]_vars

\* C25: when a processor call fails in a loop pass, the stage neither ends
\* nor puts None and is back at its get for the next input; the Pair it
\* puts carries the text the failed call was given, followed by the
\* separator, in place of the failed output.
C25_FailurePassesInputOn ==
    [][(aNUpd' # aNUpd /\ FailedPass') =>
          (/\ StageGoesOn'
           /\ \A i \in 1..2 : FailedCall(i)' =>
                  /\ aObs'.results[i] = CallInput(i)'
                  /\ EmittedFor(i)' =
                         <<Some(Pair(CallInput(i)' \o SeparatorFor(i)', <<>>))>>)]_vars

\* a translate processor's call failed in a loop pass, the Pair put on the
\* translation queue carries the untranslated input, and the loop is at its
\* get with another Pair to take
C25_Witness ==
    /\ FailedPass
    /\ aMode = "translate"
    /\ aPc = "get"
    /\ aNUpd < MaxAUpdates
    /\ aObs.input # <<>>
    /\ aObs.tl = <<Some(Pair(aObs.input \o <<Space>>, <<>>))>>

----------------------------------------------------------------------------
(* Auto-stop.  aLastCnfm is the time at which the stage last took a Pair   *)
(* with confirmed text, in either branch; the stage starts at time 0.      *)

\* the time since confirmed text last arrived, or since the start
SinceConfirmed ==
    now - (IF aLastCnfm.none THEN 0 ELSE aLastCnfm.val)

\* the auto-stop test has just ended the loop
AutoStopped ==
    aObs # <<>> /\ aObs.kind = "autostop"

\* C26: with auto-stop enabled, in HTTP mode and in LLM mode, the loop is
\* ended by auto-stop only when no confirmed text has arrived for at least
\* AUTO_STOP_DURATION; while confirmed text arrives more often, it never
\* fires.
C26_AutoStopOnlyAfterSilence ==
    AutoStopped => SinceConfirmed >= AUTO_STOP_DURATION

----------------------------------------------------------------------------
(* The two-call branch: proofread, then translate.                         *)

\* the latest step dispatched through the two-call branch, in the loop or
\* in the exit processing
TwoCallDispatch ==
    /\ aObs # <<>>
    /\ aObs.kind \in {"llm", "exit"}
    /\ aObs.dispatched
    /\ TwoCalls(aMode, aHasPr)

\* the text the latest dispatch was made for: to_process or final_text
DispatchInput ==
    IF aObs.kind = "llm" THEN aObs.input ELSE aObs.final_text

\* the texts carried by the Pairs of a list of puts
PutTexts(items) ==
    [k \in 1..Len(items) |-> items[k].val.cnfm]

\* the separator after the translation in the loop; the exit processing
\* appends none (lines 311-312, 405-410)
TranslationSeparator ==
    IF aObs.kind = "exit" THEN <<>>
    ELSE IF HasBreak(aObs.acc) THEN ParaBreak ELSE <<Space>>

ProofreadSeparator ==
    IF aObs.kind = "exit" THEN <<>> ELSE ParaBreak

\* each result is put on its own queue and on no other, when it is not empty
EachOnItsQueue ==
    /\ PutTexts(aObs.pr) = IF aObs.results[1] # <<>>
                           THEN <<aObs.results[1] \o ProofreadSeparator>> ELSE <<>>
    /\ PutTexts(aObs.tl) = IF aObs.results[2] # <<>>
                           THEN <<aObs.results[2] \o TranslationSeparator>> ELSE <<>>

----------------------------------------------------------------------------
(* What becomes of the confirmed text the LLM branch takes.  The text not  *)
(* yet dispatched is accumulated_done.                                     *)

\* a step of the stage that takes a Pair
TakesPair ==
    aNUpd' # aNUpd /\ aMode # "http"

\* the text the step passes to the LLM, if any
Dispatched ==
    IF aObs'.dispatched
    THEN (IF aObs'.kind = "llm" THEN aObs'.input ELSE aObs'.final_text)
    ELSE <<>>

\* C36: in LLM mode every confirmed character the stage takes is passed to
\* the LLM in exactly one dispatch, in arrival order, on every path by
\* which the stage terminates: a step that takes a Pair adds its confirmed
\* text to the text not yet dispatched, whichever way the loop goes on; a
\* dispatch removes exactly what it passes, and only a paragraph break at
\* which accumulated is split may go without being passed; the exit
\* processing passes all that is left.
C36_NothingLostNothingTwice ==
    [][/\ (TakesPair /\ aObs'.kind = "autostop")
              => accumulated_done' = accumulated_done \o aObs'.done_src
       /\ (TakesPair /\ aObs'.kind = "llm")
              => /\ aObs'.acc = accumulated_done \o aObs'.done_src
                 /\ aObs'.acc \in {Dispatched \o accumulated_done',
                                   Dispatched \o ParaBreak \o accumulated_done'}
       /\ (aPc = "exit" /\ aPc' = "done" /\ aMode # "http")
              => /\ SubSeq(aObs'.final_text, 1, Len(accumulated_done)) = accumulated_done
                 /\ Strip(accumulated_done) # <<>> => Dispatched = aObs'.final_text]_vars

\* ---------------------------------------------------------------------
\* The manual trigger flag (processing.py 200-204, 233-255)
\* ---------------------------------------------------------------------

\* an update of the LLM branch of the translation stage
LlmUpdate ==
    aNUpd' = aNUpd + 1 /\ aObs' # <<>> /\ aObs'.kind = "llm"

\* the split at the last paragraph break leaves nothing to dispatch:
\* accumulated opens with its only paragraph break
OpensWithOnlyBreak(text) ==
    Breaks(text) = {1}

\* C37: in LLM mode, whenever the translation stage observes the manual
\* trigger flag set while accumulated is non-empty, it clears the flag and
\* makes an LLM dispatch in that same update; the flag is never cleared
\* without a dispatch, and while accumulated is empty the flag stays set.
C37_ManualTriggerDispatches ==
    [][/\ (LlmUpdate /\ aObs'.flag /\ aObs'.acc # <<>>)
              => ~manual_trigger' /\ aObs'.dispatched
       /\ (manual_trigger /\ ~manual_trigger')
              => LlmUpdate /\ aObs'.dispatched
       /\ (LlmUpdate /\ aObs'.flag /\ aObs'.acc = <<>>)
              => manual_trigger']_vars

\* what the code does keep: the flag is cleared exactly when it is
\* observed set with accumulated non-empty, and a dispatch follows unless
\* accumulated opens with its only paragraph break
C37_ClearedUnlessOpeningBreak ==
    [][/\ (LlmUpdate /\ aObs'.flag /\ aObs'.acc # <<>>)
              => /\ ~manual_trigger'
                 /\ aObs'.dispatched <=> ~OpensWithOnlyBreak(aObs'.acc)
       /\ (manual_trigger /\ ~manual_trigger')
              => LlmUpdate /\ aObs'.flag /\ aObs'.acc # <<>>
       /\ (LlmUpdate /\ aObs'.flag /\ aObs'.acc = <<>>)
              => manual_trigger']_vars

\* the flag was observed set, accumulated opened with its only paragraph
\* break, the flag is cleared and nothing was dispatched
C37_ClearedWithoutDispatch ==
    /\ LlmPass
    /\ aObs.flag
    /\ OpensWithOnlyBreak(aObs.acc)
    /\ ~aObs.dispatched
    /\ ~manual_trigger

\* ---------------------------------------------------------------------
\* The hard caps of the paragraph detector (paragraph_detector.py 66-69,
\* 87-125)
\* ---------------------------------------------------------------------

\* the text of the paragraph the detector is in: what it returned since
\* its last break
CurrentParagraph ==
    IF Breaks(dOut) = {} THEN dOut ELSE AfterLastBreak(dOut)

\* the non-empty segments among the ones processed so far
NonEmptySeen ==
    {i \in 1..(dNext - 1) : dSegs[i].text # <<>>}

\* the current paragraph consists of a single non-empty segment
SingleSegmentParagraph ==
    /\ NonEmptySeen # {}
    /\ CurrentParagraph = dSegs[CHOOSE i \in NonEmptySeen :
                                   \A k \in NonEmptySeen : i >= k].text

\* a call that passed one segment
OneSegment ==
    dCalls' # dCalls /\ Len(dBatch') = 1

\* C38: after every segment processed, current_para_chars <= max_chars and
\* current_para_words <= max_words unless the current paragraph consists of
\* a single non-empty segment; a hard-cap break is never inserted before
\* the first non-empty segment of a paragraph (a break in front of a
\* segment that finds the paragraph without text is a pause break), and
\* after a break the counters equal the length and word count of the
\* segment that opened the new paragraph (the last two stated for the
\* calls that pass one segment).
C38_CountersWithinCaps ==
    /\ []((dDet # <<>> /\ dCalls > 0) =>
            \/ SingleSegmentParagraph
            \/ /\ dDet.current_para_chars <= dParams.max_chars
               /\ dDet.current_para_words <= dParams.max_words)
    /\ [][(OneSegment /\ dRet' = ParaBreak \o dBatch'[1].text) =>
            /\ dDet'.current_para_chars = Len(dBatch'[1].text)
            /\ dDet'.current_para_words = WordCount(dBatch'[1].text)
            /\ CurrentParagraph = <<>> =>
                  /\ ~dDet.last_absolute_end.none
                  /\ CallPause >= dParams.min_pause]_vars

\* a paragraph of "a" and "a" under the word cap of 2 was closed by the
\* hard cap in front of a segment that follows without a pause, and the
\* counters are those of that segment, "a a a", itself past the cap
C38_Witness ==
    /\ dScen = "caps"
    /\ dParams.max_words = ParaMaxWords
    /\ dNext = 4
    /\ dOut = <<Letter, Letter>> \o ParaBreak \o dSegs[3].text
    /\ dSegs[3].start = dSegs[2].end
    /\ dDet.current_para_chars = 5
    /\ dDet.current_para_words = 3

\* ---------------------------------------------------------------------
\* Absolute times across window trims (processing.py 129-152,
\* paragraph_detector.py 91-123)
\* ---------------------------------------------------------------------

\* an update of ts_proc that passed confirmed segments to the detector
DetectorFed ==
    /\ nupd' = nupd + 1
    /\ tsImpl = "proc"
    /\ paraOn
    /\ tsObs'.i > 0

\* segment.start + cumulative_offset of the k-th segment of the update
AbsoluteStart(k) ==
    tsObs'.segs[k].start + cumulative_offset

\* the absolute end of the segment confirmed before the k-th one of the
\* update: the one before it in the response, or the last one the
\* detector saw in an earlier update
PreviousAbsoluteEnd(k) ==
    IF k > 1 THEN tsObs'.segs[k - 1].end + cumulative_offset
    ELSE det.last_absolute_end.val

\* C39: across successive updates, provided each oracle response lists
\* chronological, non-overlapping segments with non-negative start times,
\* the absolute start (segment.start + cumulative_offset) of every
\* confirmed segment passed to the paragraph detector is at least the
\* absolute end of the previously confirmed segment, and the detector
\* keeps the absolute end of the last one; so a pause computed across a
\* window trim is never negative.
C39_AbsoluteTimesMonotone ==
    [][(DetectorFed /\ chronological') =>
          /\ \A k \in 1..tsObs'.i :
                (k > 1 \/ ~det.last_absolute_end.none)
                    => AbsoluteStart(k) >= PreviousAbsoluteEnd(k)
          /\ det'.last_absolute_end
                 = Some(tsObs'.segs[tsObs'.i].end + cumulative_offset)]_vars

\* after a trim of the window, a segment confirmed by the next update
\* starts, in absolute time, after the end of the segment confirmed before
\* the trim
C39_Witness ==
    /\ tsImpl = "proc"
    /\ paraOn
    /\ chronological
    /\ nupd >= 2
    /\ tsObs # <<>>
    /\ tsObs.i = 1
    /\ tsObs.segs[1].start = 0
    /\ cumulative_offset - tsObs.boundary > 0
    /\ det.pause_history # <<>>

====
